---- MODULE Spec2Model ----
(***************************************************************************)
(* Verification model of the assessment recommendation pipeline:          *)
(*   - MeanRecallAtKEvaluator  (src/src/evaluation/shl_eval_framework.py)  *)
(*   - AssessmentRetriever     (src/src/retrieval/retriever.py)            *)
(*   - AssessmentRecommender   (src/src/recommendation/recommender.py)     *)
(*   - VectorDBBuilder         (src/src/embeddings/build_vector_db.py)     *)
(*                                                                         *)
(* Number representation.  A recall value is the exact fraction            *)
(* correct / len(ground_truth_set), kept reduced as [num, den] (1.0 is     *)
(* [num |-> 1, den |-> 1]).  A value that the code passes through          *)
(* round(x, 4) is kept as the integer number of ten-thousandths.           *)
(* Distances and similarity scores are integers in hundredths.             *)
(***************************************************************************)
EXTENDS Integers, Sequences, FiniteSets, TLC

\* ---------------------------------------------------------------------
\* Bounds of the evaluation inputs
\* ---------------------------------------------------------------------
MaxPredLen  == 3      \* longest predicted list given to calculate_recall_at_k
MaxTruthLen == 3      \* longest ground-truth list given to calculate_recall_at_k
MaxK        == 5      \* largest k given to calculate_recall_at_k
NumQueries  == 2      \* most ground-truth queries in an evaluate_system input
MaxCsvItems == 2      \* most assessments of one query given to generate_predictions_csv

\* identifiers of the lists given to calculate_recall_at_k
PredictedURLs == {"a", "b", "c"}
TruthURLs     == {"a", "b", "c", "z"}

\* URL lists inside an evaluate_system input: ground truth that is empty,
\* a repeated item, two items, three items; predictions that are empty,
\* partial, reordered
EvalTruthLists     == {<<>>, <<"a", "a">>, <<"a", "b">>, <<"a", "b", "z">>}
EvalPredictedLists == {<<>>, <<"a">>, <<"b", "a">>}

SeqsUpTo(S, n) == UNION {[1..m -> S] : m \in 0..n}

Range(s) == {s[i] : i \in 1..Len(s)}

\* the orderings of n items
Reorderings(n) == {f \in [1..n -> 1..n] : \A i, j \in 1..n : f[i] = f[j] => i = j}

\* ---------------------------------------------------------------------
\* Exact arithmetic helpers
\* ---------------------------------------------------------------------
RECURSIVE Gcd(_, _)
Gcd(a, b) == IF b = 0 THEN a ELSE Gcd(b, a % b)

Lcm(a, b) == (a * b) \div Gcd(a, b)

\* the float n / d, as a reduced fraction (d > 0, n >= 0)
Frac(n, d) == [num |-> n \div Gcd(n, d), den |-> d \div Gcd(n, d)]

One == [num |-> 1, den |-> 1]

FracLeq(x, y) == x.num * y.den <= y.num * x.den

RECURSIVE LcmDen(_)
LcmDen(xs) == IF xs = <<>> THEN 1 ELSE Lcm(Head(xs).den, LcmDen(Tail(xs)))

RECURSIVE SumOver(_, _)
\* sum of xs[i].num * (D / xs[i].den): the numerator of sum(xs) over D
SumOver(xs, D) ==
    IF xs = <<>> THEN 0
    ELSE Head(xs).num * (D \div Head(xs).den) + SumOver(Tail(xs), D)

RECURSIVE SumSqDev(_, _, _, _)
\* sum of (n * a_i - S)^2 where a_i is the numerator of xs[i] over D
SumSqDev(xs, D, n, S) ==
    IF xs = <<>> THEN 0
    ELSE LET d == n * Head(xs).num * (D \div Head(xs).den) - S
         IN  d * d + SumSqDev(Tail(xs), D, n, S)

\* ---------------------------------------------------------------------
\* Binary floating point.  The code computes with IEEE doubles: n / d is
\* the double nearest to the fraction, every sum, product, quotient and
\* square root is rounded to 53 significant bits (ties to even), and
\* round(x, 4) rounds the double x, not the fraction it stands for.  The
\* two differ when the fraction lies exactly half-way between two
\* multiples of 0.0001: 1/160 = 0.00625 is held as a double slightly
\* above it and rounds to 0.0063.  Doubles are kept here as
\* [m |-> digits, s |-> scale], the value m * 2^(-s), m a natural number
\* in base 2^15, least significant digit first.
\* ---------------------------------------------------------------------
Limb == 32768

RECURSIVE BitsOf(_)
\* a natural number as its digits in base 2^15, least significant first
BitsOf(n) == IF n = 0 THEN <<>> ELSE <<n % Limb>> \o BitsOf(n \div Limb)

RECURSIVE IntOf(_)
IntOf(b) == IF b = <<>> THEN 0 ELSE Head(b) + Limb * IntOf(Tail(b))

RECURSIVE Trim(_)
\* without leading zero digits
Trim(b) ==
    IF b = <<>> THEN <<>>
    ELSE IF b[Len(b)] = 0 THEN Trim(SubSeq(b, 1, Len(b) - 1)) ELSE b

DigitAt(b, i) == IF i <= Len(b) THEN b[i] ELSE 0

RECURSIVE AddFrom(_, _, _, _)
AddFrom(a, b, i, carry) ==
    IF i > Len(a) /\ i > Len(b) THEN (IF carry = 1 THEN <<1>> ELSE <<>>)
    ELSE LET t == DigitAt(a, i) + DigitAt(b, i) + carry
         IN  <<t % Limb>> \o AddFrom(a, b, i + 1, t \div Limb)

AddBits(a, b) == AddFrom(a, b, 1, 0)

RECURSIVE SubFrom(_, _, _, _)
SubFrom(a, b, i, borrow) ==
    IF i > Len(a) THEN <<>>
    ELSE LET t == DigitAt(a, i) - DigitAt(b, i) - borrow
         IN  <<(t + Limb) % Limb>> \o SubFrom(a, b, i + 1, IF t < 0 THEN 1 ELSE 0)

\* a - b for a >= b
SubBits(a, b) == Trim(SubFrom(a, b, 1, 0))

RECURSIVE LessFrom(_, _, _)
\* a < b for numbers of the same length, comparing from digit i down
LessFrom(a, b, i) ==
    IF i = 0 THEN FALSE
    ELSE IF a[i] # b[i] THEN a[i] < b[i]
    ELSE LessFrom(a, b, i - 1)

LessBits(a, b) ==
    Len(a) < Len(b) \/ (Len(a) = Len(b) /\ LessFrom(a, b, Len(a)))

RECURSIVE MulSmallFrom(_, _, _, _)
MulSmallFrom(a, m, i, carry) ==
    IF i > Len(a) THEN (IF carry = 0 THEN <<>> ELSE <<carry>>)
    ELSE LET t == a[i] * m + carry
         IN  <<t % Limb>> \o MulSmallFrom(a, m, i + 1, t \div Limb)

\* a * m for 0 <= m <= 2^15
MulSmall(a, m) == IF m = 0 THEN <<>> ELSE MulSmallFrom(a, m, 1, 0)

\* a * 2^(15 k)
ShiftLimbs(a, k) == IF a = <<>> THEN <<>> ELSE [i \in 1..k |-> 0] \o a

RECURSIVE MulBits(_, _)
MulBits(a, b) ==
    IF b = <<>> \/ a = <<>> THEN <<>>
    ELSE AddBits(MulSmall(a, Head(b)), ShiftLimbs(MulBits(a, Tail(b)), 1))

RECURSIVE DivBits(_, _)
\* quotient (with leading zeros) and remainder of a by d, 0 < d < 2^16
DivBits(a, d) ==
    IF a = <<>> THEN [q |-> <<>>, r |-> 0]
    ELSE LET hi  == DivBits(Tail(a), d)
             rem == Limb * hi.r + Head(a)
         IN  [q |-> <<rem \div d>> \o hi.q, r |-> rem % d]

\* a * 2^k
ShiftL(a, k) == MulSmall(ShiftLimbs(a, k \div 15), 2^(k % 15))

\* a \div 2^k
ShiftR(a, k) ==
    IF k \div 15 >= Len(a) THEN <<>>
    ELSE Trim(DivBits(SubSeq(a, (k \div 15) + 1, Len(a)), 2^(k % 15)).q)

RECURSIVE SmallBitLen(_)
SmallBitLen(n) == IF n = 0 THEN 0 ELSE 1 + SmallBitLen(n \div 2)

\* the number of binary digits of a
BitLen(a) == IF a = <<>> THEN 0 ELSE 15 * (Len(a) - 1) + SmallBitLen(a[Len(a)])

RECURSIVE SqrtDigit(_, _, _, _, _)
\* the largest digit d in lo..hi with (root + d * 2^(15 (i - 1)))^2 <= a
SqrtDigit(a, root, i, lo, hi) ==
    IF lo = hi THEN lo
    ELSE LET mid  == (lo + hi + 1) \div 2
             cand == AddBits(root, ShiftLimbs(<<mid>>, i - 1))
         IN  IF LessBits(a, MulBits(cand, cand))
             THEN SqrtDigit(a, root, i, lo, mid - 1)
             ELSE SqrtDigit(a, root, i, mid, hi)

RECURSIVE SqrtFrom(_, _, _)
\* the integer square root of a, its digits i, i - 1, ..., 1 still to be
\* found above the digits of root
SqrtFrom(a, root, i) ==
    IF i = 0 THEN root
    ELSE LET d == SqrtDigit(a, root, i, 0, Limb - 1)
         IN  IF d = 0 THEN SqrtFrom(a, root, i - 1)
             ELSE SqrtFrom(a, AddBits(root, ShiftLimbs(<<d>>, i - 1)), i - 1)

\* the integer square root of a
SqrtBits(a) == SqrtFrom(a, <<>>, (Len(a) + 1) \div 2)

\* n * 2^(-k), or a little more when sticky, as a whole number, ties to
\* even
RoundShift(n, k, sticky) ==
    IF k <= 0 THEN ShiftL(n, -k)
    ELSE LET q    == ShiftR(n, k)
             rem  == SubBits(n, ShiftL(q, k))
             half == ShiftL(<<1>>, k - 1)
             up   == LessBits(half, rem)
                     \/ (rem = half /\ (sticky \/ DigitAt(q, 1) % 2 = 1))
         IN  IF up THEN AddBits(q, <<1>>) ELSE q

\* the double nearest to n * 2^(-s) (a little more when sticky): 53
\* significant bits
RoundTo53(n, s, sticky) ==
    IF n = <<>> THEN [m |-> <<>>, s |-> 0]
    ELSE IF BitLen(n) <= 53 THEN [m |-> n, s |-> s]
    ELSE [m |-> RoundShift(n, BitLen(n) - 53, sticky), s |-> s - (BitLen(n) - 53)]

\* the double p / q for integers p >= 0, 0 < q < 2^16
DoubleOf(p, q) ==
    LET d == DivBits(ShiftLimbs(BitsOf(p), 6), q)
    IN  RoundTo53(Trim(d.q), 90, d.r # 0)

\* x / n for a double x and an integer 0 < n < 2^16
FDivInt(x, n) ==
    IF x.m = <<>> THEN x
    ELSE
    LET d == DivBits(ShiftLimbs(x.m, 6), n)
    IN  RoundTo53(Trim(d.q), x.s + 90, d.r # 0)

MaxOf(a, b) == IF a >= b THEN a ELSE b

\* x + y
FAdd(x, y) ==
    IF x.m = <<>> THEN y
    ELSE IF y.m = <<>> THEN x
    ELSE
    LET s == MaxOf(x.s, y.s)
    IN  RoundTo53(AddBits(ShiftL(x.m, s - x.s), ShiftL(y.m, s - y.s)), s, FALSE)

\* |x - y|
FAbsDiff(x, y) ==
    IF x.m = <<>> THEN y
    ELSE IF y.m = <<>> THEN x
    ELSE
    LET s == MaxOf(x.s, y.s)
        a == ShiftL(x.m, s - x.s)
        b == ShiftL(y.m, s - y.s)
    IN  RoundTo53(IF LessBits(a, b) THEN SubBits(b, a) ELSE SubBits(a, b), s, FALSE)

\* x * y
FMul(x, y) ==
    IF x.m = <<>> \/ y.m = <<>> THEN [m |-> <<>>, s |-> 0]
    ELSE RoundTo53(MulBits(x.m, y.m), x.s + y.s, FALSE)

\* sqrt(x)
FSqrt(x) ==
    IF x.m = <<>> THEN x
    ELSE
    LET j == IF x.s % 2 = 0 THEN 120 ELSE 135
        a == ShiftL(x.m, j)
        r == SqrtBits(a)
    IN  RoundTo53(r, (x.s + j) \div 2, MulBits(r, r) # a)

\* round(x, 4) of a double x >= 0, in ten-thousandths: the double is
\* rounded, ties to even
RoundDouble4(x) ==
    IF x.m = <<>> THEN 0
    ELSE IntOf(RoundShift(MulBits(x.m, BitsOf(10000)), x.s, FALSE))

RECURSIVE SumFrom(_, _, _, _, _)
\* acc + xs[i] + xs[i + step] + ... + xs[last], one addition after the
\* other from the left (last = i + k * step, or last < i for no item)
SumFrom(acc, xs, i, step, last) ==
    IF last < i THEN acc
    ELSE FAdd(SumFrom(acc, xs, i, step, last - step), xs[last])

FZero == [m |-> <<>>, s |-> 0]

RECURSIVE PairwiseSum(_)
\* numpy's add.reduce over a float64 array: a plain loop below 8 items,
\* 8 interleaved partial sums up to 128 items, two halves above
PairwiseSum(xs) ==
    LET n == Len(xs)
    IN  IF n < 8 THEN SumFrom(FZero, xs, 1, 1, n)
        ELSE IF n <= 128
        THEN LET whole == n - (n % 8)
                 r == [j \in 1..8 |-> SumFrom(xs[j], xs, j + 8, 8, whole - 8 + j)]
                 res == FAdd(FAdd(FAdd(r[1], r[2]), FAdd(r[3], r[4])),
                             FAdd(FAdd(r[5], r[6]), FAdd(r[7], r[8])))
             IN  SumFrom(res, xs, whole + 1, 1, n)
        ELSE LET half == (n \div 2) - ((n \div 2) % 8)
             IN  FAdd(PairwiseSum(SubSeq(xs, 1, half)),
                      PairwiseSum(SubSeq(xs, half + 1, n)))

\* np.mean(xs) of doubles
np_mean(xs) == FDivInt(PairwiseSum(xs), Len(xs))

\* np.std(xs) of doubles: sqrt(mean(|x - mean(xs)|^2))
np_std(xs) ==
    LET arrmean == np_mean(xs)
        x == [i \in 1..Len(xs) |->
                LET d == FAbsDiff(xs[i], arrmean) IN FMul(d, d)]
    IN  FSqrt(np_mean(x))

\* p / q lies exactly half-way between two multiples of 0.0001
DecimalTie(p, q) ==
    LET a == p \div Gcd(p, q)
        b == q \div Gcd(p, q)
    IN  20000 % b = 0 /\ ((20000 \div b) * a) % 2 = 1

\* round(p / q, 4) in ten-thousandths.  Off a tie the double p / q lies on
\* the same side of the tie as the fraction (they differ by less than
\* 2^(-53) of the value, a tie is at least 1 / (20000 q) away); on a tie
\* the double decides
Round4(p, q) ==
    LET n == p * 10000
        f == n \div q
        r == n % q
    IN  IF DecimalTie(p, q) THEN RoundDouble4(DoubleOf(p, q))
        ELSE IF 2 * r < q THEN f
        ELSE f + 1

\* Two-limb products (base 10^4) so that the comparisons of the square
\* root below stay inside 32-bit integers: <<hi, lo>> = x * y for
\* x < 10^9 and y < 5 * 10^4.
Mul2(x, y) ==
    LET x1 == x \div 10000
        x0 == x % 10000
        l  == x0 * y
    IN  <<x1 * y + (l \div 10000), l % 10000>>

Leq2(a, b) == a[1] < b[1] \/ (a[1] = b[1] /\ a[2] <= b[2])

\* s - 1/2 <= 10^4 * sqrt(p / q), i.e. (2s - 1)^2 * q <= 4 * 10^8 * p
HalfBelow(s, p, q) ==
    s = 0 \/ Leq2(Mul2((2 * s - 1) * (2 * s - 1), q), Mul2(400000000, p))

RECURSIVE SqrtSearch(_, _, _, _)
\* the largest s in lo..hi with HalfBelow(s, p, q); HalfBelow(lo, p, q) holds
SqrtSearch(lo, hi, p, q) ==
    IF lo = hi THEN lo
    ELSE LET mid == (lo + hi + 1) \div 2
         IN  IF HalfBelow(mid, p, q) THEN SqrtSearch(mid, hi, p, q)
             ELSE SqrtSearch(lo, mid - 1, p, q)

\* sqrt(p / q) lies exactly half-way between two multiples of 0.0001
SqrtTie(p, q) ==
    LET s == SqrtSearch(0, 10000, p, q)
    IN  s > 0 /\ Mul2((2 * s - 1) * (2 * s - 1), q) = Mul2(400000000, p)

\* sqrt(p / q) to the nearest ten-thousandth, for 0 <= p / q <= 1, the
\* even one on a tie
RoundSqrt4(p, q) ==
    LET s == SqrtSearch(0, 10000, p, q)
    IN  IF SqrtTie(p, q) /\ s % 2 = 1 THEN s - 1 ELSE s

\* the recalls as the doubles the code holds
DoublesOf(recalls) == [i \in 1..Len(recalls) |-> DoubleOf(recalls[i].num, recalls[i].den)]

\* ---------------------------------------------------------------------
\* MeanRecallAtKEvaluator
\* ---------------------------------------------------------------------

\* Python's lst[:k]: the first k elements for k >= 0, all but the last
\* -k elements for k < 0
SliceLastK(lst, k) ==
    LET start == IF k > 0 THEN (IF k < Len(lst) THEN Len(lst) - k ELSE 0)
                 ELSE (IF -k < Len(lst) THEN -k ELSE Len(lst))
    IN  SubSeq(lst, start + 1, Len(lst))

SliceOffByOne(lst, k) ==
    LET stop == IF k - 1 >= 0 THEN (IF k - 1 < Len(lst) THEN k - 1 ELSE Len(lst))
                ELSE (IF Len(lst) + k - 1 > 0 THEN Len(lst) + k - 1 ELSE 0)
    IN  SubSeq(lst, 1, stop)

Slice(lst, k) ==
    LET stop == IF k >= 0 THEN (IF k < Len(lst) THEN k ELSE Len(lst))
                ELSE (IF Len(lst) + k > 0 THEN Len(lst) + k ELSE 0)
    IN  SubSeq(lst, 1, stop)

\* correct = len(set(predicted[:k]) & set(ground_truth))
count_correct_per_position(predicted, ground_truth, k) ==
    Cardinality({i \in 1..Len(Slice(predicted, k)) : predicted[i] \in Range(ground_truth)})

count_correct_per_truth_entry(predicted, ground_truth, k) ==
    Cardinality({i \in 1..Len(ground_truth) : ground_truth[i] \in Range(Slice(predicted, k))})

count_correct(predicted, ground_truth, k) ==
    LET top_k            == Range(Slice(predicted, k))
        ground_truth_set == Range(ground_truth)
    IN  Cardinality(top_k \cap ground_truth_set)

calculate_recall_at_k_zero_on_empty(predicted, ground_truth, k) ==
    IF ground_truth = <<>> THEN [num |-> 0, den |-> 1]
    ELSE Frac(count_correct(predicted, ground_truth, k),
              Cardinality(Range(ground_truth)))

calculate_recall_at_k(predicted, ground_truth, k) ==
    IF ground_truth = <<>> THEN One
    ELSE Frac(count_correct(predicted, ground_truth, k),
              Cardinality(Range(ground_truth)))

\* f'recall@{k}'
MetricKey(k) == "recall@" \o ToString(k)

\* d[key] = val on a dict
Put(d, key, val) ==
    [x \in (DOMAIN d) \cup {key} |-> IF x = key THEN val ELSE d[x]]

EmptyDict == [x \in {} |-> 0]

\* the initial results dictionary of evaluate_system
NewResults ==
    [queries_evaluated |-> 0,
     mean_recall_at_k  |-> EmptyDict,
     per_query_recall  |-> EmptyDict,
     summary           |-> EmptyDict]

\* the body of "for k in self.K_values" for one k
RecordRecall(results, query_id, predicted_urls, ground_truth_urls, k) ==
    LET recall  == calculate_recall_at_k(predicted_urls, ground_truth_urls, k)
        key     == MetricKey(k)
        lists   == IF key \in DOMAIN results.mean_recall_at_k
                   THEN results.mean_recall_at_k
                   ELSE Put(results.mean_recall_at_k, key, <<>>)
        perq    == IF query_id \in DOMAIN results.per_query_recall
                   THEN results.per_query_recall[query_id]
                   ELSE EmptyDict
    IN  [results EXCEPT
           !.mean_recall_at_k = Put(lists, key, Append(lists[key], recall)),
           !.per_query_recall = Put(results.per_query_recall, query_id,
                                    Put(perq, key, recall))]

RECURSIVE ForEachK(_, _, _, _, _)
ForEachK(results, query_id, predicted_urls, ground_truth_urls, Ks) ==
    IF Ks = <<>> THEN results
    ELSE ForEachK(RecordRecall(results, query_id, predicted_urls,
                               ground_truth_urls, Head(Ks)),
                  query_id, predicted_urls, ground_truth_urls, Tail(Ks))

\* the body of "for query_id, ground_truth_urls in ground_truth.items()"
EvaluateQueryCountingMissing(results, query_id, ground_truth_urls, query_predictions, Ks) ==
    IF query_id \notin DOMAIN query_predictions
    THEN [results EXCEPT !.queries_evaluated = @ + 1]
    ELSE ForEachK([results EXCEPT !.queries_evaluated = @ + 1],
                  query_id, query_predictions[query_id], ground_truth_urls, Ks)

EvaluateQuery(results, query_id, ground_truth_urls, query_predictions, Ks) ==
    IF query_id \notin DOMAIN query_predictions
    THEN results
    ELSE ForEachK([results EXCEPT !.queries_evaluated = @ + 1],
                  query_id, query_predictions[query_id], ground_truth_urls, Ks)

RECURSIVE ForEachQuery(_, _, _, _)
\* ground_truth is the dict in iteration order: a sequence of
\* [query_id, urls] items with distinct query ids
ForEachQuery(results, query_predictions, ground_truth, Ks) ==
    IF ground_truth = <<>> THEN results
    ELSE ForEachQuery(EvaluateQuery(results, Head(ground_truth).query_id,
                                    Head(ground_truth).urls,
                                    query_predictions, Ks),
                      query_predictions, Tail(ground_truth), Ks)

RECURSIVE MinFrac(_)
MinFrac(xs) ==
    IF Len(xs) = 1 THEN Head(xs)
    ELSE LET m == MinFrac(Tail(xs))
         IN  IF FracLeq(Head(xs), m) THEN Head(xs) ELSE m

RECURSIVE MaxFrac(_)
MaxFrac(xs) ==
    IF Len(xs) = 1 THEN Head(xs)
    ELSE LET m == MaxFrac(Tail(xs))
         IN  IF FracLeq(m, Head(xs)) THEN Head(xs) ELSE m

RECURSIVE BoundedLcm(_)
\* the common denominator of the recalls, or some number above 1000 when
\* it is larger than that
BoundedLcm(xs) ==
    IF xs = <<>> THEN 1
    ELSE LET rest == BoundedLcm(Tail(xs))
         IN  IF rest > 1000 \/ Head(xs).den > 1000 THEN 1001
             ELSE Lcm(Head(xs).den, rest)

\* the exact arithmetic below stays inside 32-bit integers for so few
\* recalls over so small a common denominator
SmallInput(recalls) ==
    Len(recalls) <= 8 /\ Len(recalls) * BoundedLcm(recalls) <= 1000

\* round(float(np.mean(recalls)), 4).  The sum of the doubles and its
\* quotient are off the fraction by less than 2^(-50); off a tie the
\* fraction is rounded, on a tie and for large inputs the doubles decide
MeanOf(recalls) ==
    LET D == LcmDen(recalls)
    IN  IF ~SmallInput(recalls) \/ DecimalTie(SumOver(recalls, D), D * Len(recalls))
        THEN RoundDouble4(np_mean(DoublesOf(recalls)))
        ELSE Round4(SumOver(recalls, D), D * Len(recalls))

\* round(float(np.std(recalls)), 4): population standard deviation.  The
\* exact value is rounded when the double arithmetic cannot end on the
\* other side of a tie: the variance is not on a tie and its reduced
\* denominator is small enough (below 2748, which keeps it 2^(-40) away
\* from every tie); else the double arithmetic decides
StdOf(recalls) ==
    LET D == LcmDen(recalls)
        n == Len(recalls)
        S == SumOver(recalls, D)
        p == SumSqDev(recalls, D, n, S)
        q == n * n * n * D * D
        g == Gcd(p, q)
    IN  IF ~SmallInput(recalls) THEN RoundDouble4(np_std(DoublesOf(recalls)))
        ELSE IF q \div g >= 2748 \/ SqrtTie(p \div g, q \div g)
        THEN RoundDouble4(np_std(DoublesOf(recalls)))
        ELSE RoundSqrt4(p \div g, q \div g)

\* the summary entry of one metric
Summarize(recalls) ==
    [mean |-> MeanOf(recalls),
     std  |-> StdOf(recalls),
     min  |-> Round4(MinFrac(recalls).num, MinFrac(recalls).den),
     max  |-> Round4(MaxFrac(recalls).num, MaxFrac(recalls).den)]

\* "for k_metric, recalls in results['mean_recall_at_k'].items()"
WithSummary(results) ==
    [results EXCEPT !.summary =
        [key \in {m \in DOMAIN results.mean_recall_at_k :
                     results.mean_recall_at_k[m] # <<>>}
           |-> Summarize(results.mean_recall_at_k[key])]]

evaluate_system(query_predictions, ground_truth, Ks) ==
    WithSummary(ForEachQuery(NewResults, query_predictions, ground_truth, Ks))

\* ---------------------------------------------------------------------
\* MeanRecallAtKEvaluator.generate_predictions_csv
\* ---------------------------------------------------------------------

\* "assessment.get('url') or assessment.get('assessment_url')" as the
\* evaluator reads a prediction; "" stands for a missing or empty value
PredictionUrl(assessment) ==
    IF "url" \in DOMAIN assessment /\ assessment.url # ""
    THEN assessment.url
    ELSE IF "assessment_url" \in DOMAIN assessment
    THEN assessment.assessment_url
    ELSE ""

\* "query_mapping.get(query_id, query_id) if query_mapping else query_id";
\* query_mapping is <<>> for None and <<m>> for the dict m
QueryDisplay(query_mapping, query_id) ==
    IF query_mapping # <<>> /\ query_id \in DOMAIN query_mapping[1]
    THEN query_mapping[1][query_id]
    ELSE query_id

RECURSIVE AssessmentRows(_, _)
\* "for assessment in assessments: ... if url: rows.append(...)"
AssessmentRows(query_display, assessments) ==
    IF assessments = <<>> THEN <<>>
    ELSE (IF PredictionUrl(Head(assessments)) # ""
          THEN <<[Query          |-> query_display,
                  Assessment_URL |-> PredictionUrl(Head(assessments))]>>
          ELSE <<>>)
         \o AssessmentRows(query_display, Tail(assessments))

RECURSIVE PredictionRows(_, _)
\* "for query_id, assessments in predictions.items()"
PredictionRows(predictions, query_mapping) ==
    IF predictions = <<>> THEN <<>>
    ELSE AssessmentRows(QueryDisplay(query_mapping, Head(predictions).query_id),
                        Head(predictions).assessments)
         \o PredictionRows(Tail(predictions), query_mapping)

\* writer.writeheader()
CsvHeader == <<"Query", "Assessment_URL">>

\* writer.writerows(rows): one line of two fields per row
CsvLines(rows) == [i \in 1..Len(rows) |-> <<rows[i].Query, rows[i].Assessment_URL>>]

\* the lines of the file written, and the value returned
generate_predictions_csv(output_file, predictions, query_mapping) ==
    [file |-> <<CsvHeader>> \o CsvLines(PredictionRows(predictions, query_mapping)),
     ret  |-> output_file]

\* ---------------------------------------------------------------------
\* Catalog, embeddings and the vector index
\* ---------------------------------------------------------------------
NumRecords == 2      \* most records in the processed catalog
MaxEntries == 3      \* most entries a collection is grown to
MaxTopK    == 1      \* largest top_k a caller passes
MaxWaiting == 1      \* most recommendations waiting for the chat service at a time
ConfigTopK == 2      \* retrieval.top_k of the configuration file
MaxConverted == 1    \* most rows of a catalog written by convert_dataset

\* Optional values: <<>> is None, <<v>> is the value v
None == <<>>
Some(v) == <<v>>

\* how the index orders entries that are equally far from the query: the
\* library does not say, and either order of insertion stands for it
TieOrders == {"oldest_first", "newest_first"}

\* the two embedding vectors the encoder produces for the query texts
VecIds == {1, 2}

FreeQueries == {"Sales manager for B2B software", "Java developer"}

JobTitles     == {"Software Engineer"}
SkillLists    == {<<"Python", "Problem Solving">>}
Levels        == {"Mid"}
ContextValues == {None, Some("Remote team")}

\* row r of the catalog as AssessmentParser.parse_assessment writes it,
\* without its full_text column
ParsedMetadata(r) ==
    [name             |-> "Assessment " \o ToString(r),
     category         |-> "Category " \o ToString(r),
     description      |-> "Description " \o ToString(r),
     skills_measured  |-> "Skill " \o ToString(r),
     job_suitability  |-> "Job " \o ToString(r),
     experience_level |-> "Mid",
     duration         |-> "30 minutes",
     delivery_method  |-> "Online"]

\* AssessmentParser._create_full_text
ParsedFullText(r) ==
    LET a == ParsedMetadata(r)
    IN  "Assessment: " \o a.name \o " | Category: " \o a.category
        \o " | Description: " \o a.description
        \o " | Skills Measured: " \o a.skills_measured
        \o " | Suitable for: " \o a.job_suitability
        \o " | Experience Levels: " \o a.experience_level

\* row r of the catalog as convert_to_processed_format writes it, for the
\* dataset row with Query "Query r" and Assessment_url
\* ".../products/assessment-r/", without its full_text column
ConvertedMetadata(r) ==
    [name             |-> "Assessment " \o ToString(r),
     category         |-> "General Assessment",
     description      |-> "Query " \o ToString(r),
     skills_measured  |-> "Various professional skills",
     job_suitability  |-> "Various professional roles",
     experience_level |-> "Entry, Mid, Senior",
     duration         |-> "Variable",
     delivery_method  |-> "Online",
     assessment_url   |-> "https://www.shl.com/products/assessment-" \o ToString(r) \o "/"]

\* "full_text" of convert_to_processed_format
ConvertedFullText(r) ==
    LET a == ConvertedMetadata(r)
    IN  "Assessment: " \o a.name \o " | Category: " \o a.category
        \o " | Query: " \o a.description
        \o " | Skills: " \o a.skills_measured
        \o " | Suitable for: " \o a.job_suitability

\* the records a catalog can hold: 1..NumRecords are the rows the parser
\* writes, the MaxConverted after them the rows convert_dataset writes
Records == 1..(NumRecords + MaxConverted)

\* the record was written by convert_dataset
Converted(rec) == rec > NumRecords

\* the rows of every record, without the full_text column
CatalogMetadata ==
    [rec \in Records |->
       IF Converted(rec) THEN ConvertedMetadata(rec - NumRecords) ELSE ParsedMetadata(rec)]

\* the full_text column of the row of every record
CatalogFullText ==
    [rec \in Records |->
       IF Converted(rec) THEN ConvertedFullText(rec - NumRecords) ELSE ParsedFullText(rec)]

\* "metadatas": the row without its full_text column
MetadataOf(rec) == CatalogMetadata[rec]

\* "documents": the full_text column of the row
FullTextOf(rec) == CatalogFullText[rec]

RECURSIVE JoinWith(_, _)
\* sep.join(parts)
JoinWith(parts, sep) ==
    IF parts = <<>> THEN ""
    ELSE IF Len(parts) = 1 THEN parts[1]
    ELSE parts[1] \o sep \o JoinWith(Tail(parts), sep)

build_query_text_context_if_given(job_title, skills, experience_level, additional_context) ==
    LET query_parts == <<"Job Title: " \o job_title,
                         "Required Skills: " \o JoinWith(skills, ", "),
                         "Experience Level: " \o experience_level>>
    IN  IF additional_context # None
        THEN JoinWith(Append(query_parts, "Context: " \o additional_context[1]), " | ")
        ELSE JoinWith(query_parts, " | ")

\* AssessmentRetriever.build_query_text
build_query_text(job_title, skills, experience_level, additional_context) ==
    LET query_parts == <<"Job Title: " \o job_title,
                         "Required Skills: " \o JoinWith(skills, ", "),
                         "Experience Level: " \o experience_level>>
    IN  IF additional_context # None /\ additional_context[1] # ""
        THEN JoinWith(Append(query_parts, "Context: " \o additional_context[1]), " | ")
        ELSE JoinWith(query_parts, " | ")

\* the query texts the encoder of this catalog sends to the first vector:
\* the sales query and the structured queries with a context
EncodedAsFirstVector ==
    {"Sales manager for B2B software",
     build_query_text("Software Engineer", <<"Python", "Problem Solving">>,
                      "Mid", Some("Remote team")),
     build_query_text("Sales Manager", <<"Communication", "Leadership">>,
                      "Senior", None),
     build_query_text("HR Manager", <<"People Management", "Recruitment">>,
                      "Senior", None)}

\* EmbeddingGenerator.encode_query: a fixed function of the text.  The
\* encoder of this catalog sends the sales query and the structured
\* queries with a context to one vector and all other texts to the other.
encode_query(text) == IF text \in EncodedAsFirstVector THEN 1 ELSE 2

NoCollection == [exists |-> FALSE, entries |-> <<>>]

\* a collection that exists and holds no entry
EmptyCollection == [exists |-> TRUE, entries |-> <<>>]

\* collection.count()
Count(coll) == Len(coll.entries)

\* the position in coll.entries of the entry at internal position p
InternalPosition(coll, tie_order, p) ==
    IF tie_order = "oldest_first" THEN p ELSE Len(coll.entries) + 1 - p

\* the response rows of the entries, in the internal order of the index;
\* d is the distance of every catalog record to the query vector
Candidates(coll, d, tie_order) ==
    [p \in 1..Len(coll.entries) |->
       [id       |-> coll.entries[InternalPosition(coll, tie_order, p)].id,
        document |-> FullTextOf(coll.entries[InternalPosition(coll, tie_order, p)].rec),
        metadata |-> MetadataOf(coll.entries[InternalPosition(coll, tie_order, p)].rec),
        distance |-> d[coll.entries[InternalPosition(coll, tie_order, p)].rec]]]

RECURSIVE InsertByDistance(_, _)
\* x placed after every row that is not farther than x
InsertByDistance(sorted, x) ==
    IF sorted = <<>> THEN <<x>>
    ELSE IF Head(sorted).distance <= x.distance
         THEN <<Head(sorted)>> \o InsertByDistance(Tail(sorted), x)
         ELSE <<x>> \o sorted

RECURSIVE NearestFirst(_)
\* rows by ascending distance; rows at the same distance keep the internal
\* order of the index
NearestFirst(rows) ==
    IF rows = <<>> THEN <<>>
    ELSE InsertByDistance(NearestFirst(SubSeq(rows, 1, Len(rows) - 1)), rows[Len(rows)])

\* collection.query(query_embeddings=[e], n_results=n) for n >= 1: the
\* min(n, count) nearest entries by ascending distance
CollectionQuery(coll, d, tie_order, n) ==
    LET sorted == NearestFirst(Candidates(coll, d, tie_order))
    IN  SubSeq(sorted, 1, IF n < Len(sorted) THEN n ELSE Len(sorted))

\* k = top_k if top_k is not None else self.top_k
RequestedKIgnoringArgument(top_k, self_top_k) == self_top_k

RequestedK(top_k, self_top_k) == IF top_k # None THEN top_k[1] ELSE self_top_k

\* the result list of retrieve, built from the index response
FormatRetrieveKeepingDistance(neighbors) ==
    [i \in 1..Len(neighbors) |->
       [rank             |-> i,
        name             |-> neighbors[i].metadata.name,
        category         |-> neighbors[i].metadata.category,
        description      |-> neighbors[i].metadata.description,
        skills_measured  |-> neighbors[i].metadata.skills_measured,
        job_suitability  |-> neighbors[i].metadata.job_suitability,
        experience_level |-> neighbors[i].metadata.experience_level,
        duration         |-> neighbors[i].metadata.duration,
        delivery_method  |-> neighbors[i].metadata.delivery_method,
        similarity_score |-> neighbors[i].distance,
        full_text        |-> neighbors[i].document]]

FormatRetrieveZeroBasedRank(neighbors) ==
    [i \in 1..Len(neighbors) |->
       [rank             |-> i - 1,
        name             |-> neighbors[i].metadata.name,
        category         |-> neighbors[i].metadata.category,
        description      |-> neighbors[i].metadata.description,
        skills_measured  |-> neighbors[i].metadata.skills_measured,
        job_suitability  |-> neighbors[i].metadata.job_suitability,
        experience_level |-> neighbors[i].metadata.experience_level,
        duration         |-> neighbors[i].metadata.duration,
        delivery_method  |-> neighbors[i].metadata.delivery_method,
        similarity_score |-> 100 - neighbors[i].distance,
        full_text        |-> neighbors[i].document]]

\* self.similarity_threshold = 0.1, in hundredths
similarity_threshold == 10

AboveThreshold(assessment) == assessment.similarity_score >= similarity_threshold

FormatRetrieveAboveThreshold(neighbors) ==
    SelectSeq([i \in 1..Len(neighbors) |->
                 [rank             |-> i,
                  name             |-> neighbors[i].metadata.name,
                  category         |-> neighbors[i].metadata.category,
                  description      |-> neighbors[i].metadata.description,
                  skills_measured  |-> neighbors[i].metadata.skills_measured,
                  job_suitability  |-> neighbors[i].metadata.job_suitability,
                  experience_level |-> neighbors[i].metadata.experience_level,
                  duration         |-> neighbors[i].metadata.duration,
                  delivery_method  |-> neighbors[i].metadata.delivery_method,
                  similarity_score |-> 100 - neighbors[i].distance,
                  full_text        |-> neighbors[i].document]],
              AboveThreshold)

FormatRetrieve(neighbors) ==
    [i \in 1..Len(neighbors) |->
       [rank             |-> i,
        name             |-> neighbors[i].metadata.name,
        category         |-> neighbors[i].metadata.category,
        description      |-> neighbors[i].metadata.description,
        skills_measured  |-> neighbors[i].metadata.skills_measured,
        job_suitability  |-> neighbors[i].metadata.job_suitability,
        experience_level |-> neighbors[i].metadata.experience_level,
        duration         |-> neighbors[i].metadata.duration,
        delivery_method  |-> neighbors[i].metadata.delivery_method,
        similarity_score |-> 100 - neighbors[i].distance,
        full_text        |-> neighbors[i].document]]

\* metadata.get('assessment_url', '')
MetadataUrl(metadata) ==
    IF "assessment_url" \in DOMAIN metadata THEN metadata.assessment_url ELSE ""

\* the result list of retrieve_by_query, built from the index response
FormatRetrieveByQuery(neighbors) ==
    [i \in 1..Len(neighbors) |->
       [rank             |-> i,
        name             |-> neighbors[i].metadata.name,
        category         |-> neighbors[i].metadata.category,
        description      |-> neighbors[i].metadata.description,
        skills_measured  |-> neighbors[i].metadata.skills_measured,
        job_suitability  |-> neighbors[i].metadata.job_suitability,
        experience_level |-> neighbors[i].metadata.experience_level,
        duration         |-> neighbors[i].metadata.duration,
        delivery_method  |-> neighbors[i].metadata.delivery_method,
        assessment_url   |-> MetadataUrl(neighbors[i].metadata),
        similarity_score |-> 100 - neighbors[i].distance]]

\* "for r in results: r['score'] = r.get('similarity_score', 0)"
AddScore(results) ==
    [i \in 1..Len(results) |->
       [key \in (DOMAIN results[i]) \cup {"score"} |->
          IF key = "score" THEN results[i].similarity_score ELSE results[i][key]]]

\* ---------------------------------------------------------------------
\* AssessmentRecommender helpers
\* ---------------------------------------------------------------------

TwoDigits(n) == IF n < 10 THEN "0" \o ToString(n) ELSE ToString(n)

\* f"{score:.2f}" of a score kept in hundredths
ScoreText(h) ==
    IF h < 0 THEN "-" \o ToString((-h) \div 100) \o "." \o TwoDigits((-h) % 100)
    ELSE ToString(h \div 100) \o "." \o TwoDigits(h % 100)

\* AssessmentRecommender._format_assessment_for_context
format_assessment_for_context(assessment) ==
    "\nAssessment: " \o assessment.name
    \o "\nCategory: " \o assessment.category
    \o "\nDescription: " \o assessment.description
    \o "\nSkills Measured: " \o assessment.skills_measured
    \o "\nJob Suitability: " \o assessment.job_suitability
    \o "\nExperience Levels: " \o assessment.experience_level
    \o "\nDuration: " \o assessment.duration
    \o "\nRelevance Score: " \o ScoreText(assessment.similarity_score) \o "\n"

\* the assessments block of the prompt: one formatted entry per retrieved
\* assessment, in list order (joined with "\n---\n" in the prompt)
AssessmentsContextFirstOnly(retrieved_assessments) ==
    [i \in 1..(IF retrieved_assessments = <<>> THEN 0 ELSE 1) |->
       format_assessment_for_context(retrieved_assessments[i])]

AssessmentsContext(retrieved_assessments) ==
    [i \in 1..Len(retrieved_assessments) |->
       format_assessment_for_context(retrieved_assessments[i])]

\* ---------------------------------------------------------------------
\* State
\* ---------------------------------------------------------------------
VARIABLES
    K_values,    \* MeanRecallAtKEvaluator.K_values
    evalCall,    \* the evaluator method being called, with its arguments
    evalReturn,  \* what that call returned (Pending before it ran)
    catalog,     \* the processed catalog file: its columns and number of rows
    dist,        \* dist[v][r]: distance of catalog record r to query vector v
    ties,        \* the order in which the index returns equally far entries
    db,          \* the vector database directory and its collection
    retriever,   \* the AssessmentRetriever object a serving process constructed
    recommender, \* the AssessmentRecommender object, with its own retriever
    chat,        \* the recommendations waiting in their chat-service request,
                 \* each with the list it retrieved before it
    call,        \* the call that returned in the step just taken, with what
                 \* it returned or raised; Idle when the step returned nothing
    kept,        \* an answer a caller of retrieve has kept, to compare a
                 \* later answer with
    test_loop,   \* the locals of test_different_queries, once it runs
    build_pc     \* the builder call in progress: the statement it has reached
                 \* and the frame it read

evalVars == <<K_values, evalCall, evalReturn>>

retrVars == <<catalog, dist, ties, db, retriever, recommender, chat, call, kept, test_loop,
              build_pc>>

vars == <<K_values, evalCall, evalReturn, catalog, dist, ties, db, retriever, recommender,
          chat, call, kept, test_loop, build_pc>>

Pending == [pending |-> TRUE]

Idle == [op |-> "idle"]

NoRetriever == [ready |-> FALSE, stale |-> FALSE, top_k |-> 0]

\* a retriever whose constructor found the collection: self.collection is
\* the collection as it exists then, self.top_k the configured value;
\* stale once that collection has been deleted
ConnectedRetriever == [ready |-> TRUE, stale |-> FALSE, top_k |-> ConfigTopK]

\* no recommender constructed; a recommender holds the retriever its
\* constructor built and a generation client or None
NoRecommender == [built |-> FALSE, client |-> FALSE, retriever |-> NoRetriever]

\* test_different_queries before its first iteration
LoopStart == [idx |-> 0, previous_results |-> None, all_same |-> TRUE]

\* a DataFrame without columns and rows
NoFrame == [columns |-> "none", rows |-> 0]

\* no builder method called yet
BuildIdle == [at |-> "idle", op |-> "none", reset |-> FALSE, df |-> NoFrame]

\* "catalog" when the processed catalog file does not exist
NoCatalogFile == [exists |-> FALSE, columns |-> "none", rows |-> 0]

\* AssessmentParser.parse_all for n raw records: pd.DataFrame of the list
\* of parsed rows, without columns when the list is empty
parse_all(n) ==
    IF n = 0 THEN NoFrame ELSE [columns |-> "parser", rows |-> n]

\* convert_to_processed_format for a dataset of n rows
convert_to_processed_format(n) ==
    IF n = 0 THEN NoFrame ELSE [columns |-> "convert_dataset", rows |-> n]

\* df.to_csv(path, index=False): the file holds the header line and the
\* rows of the frame
to_csv(df) == [exists |-> TRUE, columns |-> df.columns, rows |-> df.rows]

\* pd.read_csv(data_path) of a file that has columns
read_csv(file) == [columns |-> file.columns, rows |-> file.rows]

\* the records of the rows of a frame, in row order
RecordsOf(df) ==
    [i \in 1..df.rows |-> IF df.columns = "convert_dataset" THEN NumRecords + i ELSE i]

\* the frames a catalog file with rows is written from
Frames ==
    {parse_all(n) : n \in 1..NumRecords}
      \cup {convert_to_processed_format(n) : n \in 1..MaxConverted}

\* the row of the parsed catalog that record rec is, or mirrors
SourceRow(rec) == IF Converted(rec) THEN rec - NumRecords ELSE rec

\* the distances of the records to the two query vectors: the second
\* vector is equally far from every record, the first is far from the
\* first row and near the others; a converted row is as far as the parsed
\* row of its number
Distances ==
    [v \in VecIds |->
       [r \in Records |-> IF v = 1 /\ SourceRow(r) = 1 THEN 130 ELSE 40]]

DefaultKValues == <<5, 10>>

\* the K lists an evaluator is constructed with; the constructor takes any
\* list, the empty one included
KValueChoices == {DefaultKValues, <<1, 2>>, <<2, 1>>, <<>>}

QueryId(i) == "q" \o ToString(i)

\* ground-truth dicts: items in insertion order, distinct query ids
GroundTruthDicts ==
    UNION {{[i \in 1..n |-> [query_id |-> QueryId(i), urls |-> u[i]]] :
              u \in [1..n -> EvalTruthLists]} : n \in 0..NumQueries}

\* prediction dicts: a URL list for some of the query ids
PredictionDicts ==
    UNION {[D -> EvalPredictedLists] :
             D \in SUBSET {QueryId(i) : i \in 1..NumQueries}}

RecallCalls ==
    [op : {"calculate_recall_at_k"},
     predicted : SeqsUpTo(PredictedURLs, MaxPredLen),
     ground_truth : SeqsUpTo(TruthURLs, MaxTruthLen),
     k : 0..MaxK]

\* a ground-truth list of n distinct URLs
LongTruth(n) == [i \in 1..n |-> "u" \o ToString(i)]

\* evaluations over long ground-truth lists: n queries that each find one
\* of their 160 relevant URLs, and three queries that find 1 of 10, 1 of 10
\* and 5 of 32
LongEvaluateCalls ==
    {[op |-> "evaluate_system",
      query_predictions |-> [q \in {QueryId(i) : i \in 1..n} |-> <<"u1">>],
      ground_truth |-> [i \in 1..n |-> [query_id |-> QueryId(i),
                                        urls     |-> LongTruth(160)]]] :
       n \in {1, 6}}
    \cup
    {[op |-> "evaluate_system",
      query_predictions |-> [q \in {"q1", "q2", "q3"} |->
                               IF q = "q3" THEN LongTruth(5) ELSE <<"u1">>],
      ground_truth |-> <<[query_id |-> "q1", urls |-> LongTruth(10)],
                         [query_id |-> "q2", urls |-> LongTruth(10)],
                         [query_id |-> "q3", urls |-> LongTruth(32)]>>]}

EvaluateCalls ==
    [op : {"evaluate_system"},
     query_predictions : PredictionDicts,
     ground_truth : GroundTruthDicts]
    \cup LongEvaluateCalls

\* assessment dicts given to generate_predictions_csv: with a url, with an
\* empty url and an assessment_url, with an assessment_url only, and as
\* retrieve_by_query returns them
CsvAssessments ==
    {[url |-> "a"],
     [url |-> "", assessment_url |-> "b"],
     [assessment_url |-> "c"],
     [name |-> "Assessment 1", assessment_url |-> ""]}

CsvQueryIds == <<"q1", "q2">>

\* predictions dicts: items in insertion order
CsvPredictionDicts ==
    UNION {{[i \in 1..n |-> [query_id |-> CsvQueryIds[i], assessments |-> a[i]]] :
              a \in [1..n -> SeqsUpTo(CsvAssessments, MaxCsvItems)]} :
           n \in 0..Len(CsvQueryIds)}

CsvQueryMappings == {<<>>, <<[q \in {"q1"} |-> "Java developer"]>>}

CsvCalls ==
    [op : {"generate_predictions_csv"},
     output_file : {"evaluation_results/training_predictions.csv"},
     predictions : CsvPredictionDicts,
     query_mapping : CsvQueryMappings]

\* ---------------------------------------------------------------------
\* MeanRecallAtKEvaluator.load_training_data, CSV branch
\* ---------------------------------------------------------------------

\* the rows of a training file
MaxCsvRows == 2

\* the text of the URL column of a row: empty, one URL, two URLs separated
\* by a comma and a blank, a JSON list, and a broken JSON list
UrlCells == {"", "a", "b", "a, b", "[\"a\", \"z\"]", "[\"a\""}

\* the text of the query column of a row
QueryCells == {"", "q1", "q2"}

\* urls.startswith('[')
StartsWithBracket(urls) == urls \in {"[\"a\", \"z\"]", "[\"a\""}

\* json.loads(urls): the list, or nothing when the text is not JSON
json_loads(urls) == IF urls = "[\"a\", \"z\"]" THEN Some(<<"a", "z">>) ELSE None

\* urls.split(',')
split_comma(urls) == IF urls = "a, b" THEN <<"a", " b">> ELSE <<urls>>

\* u.strip()
strip(u) == IF u = " b" THEN "b" ELSE u

\* the value of "urls" after the isinstance(urls, str) block of one row;
\* None when json.loads raises
ParsedUrls(urls) ==
    IF StartsWithBracket(urls) THEN json_loads(urls)
    ELSE Some([i \in 1..Len(split_comma(urls)) |-> strip(split_comma(urls)[i])])

\* ground_truth[query_id] = urls on a dict kept as its items in insertion
\* order: a new key is appended, an existing key keeps its place and gets
\* the new value
SetItem(ground_truth, query_id, urls) ==
    IF \E i \in DOMAIN ground_truth : ground_truth[i].query_id = query_id
    THEN [i \in DOMAIN ground_truth |->
            IF ground_truth[i].query_id = query_id
            THEN [query_id |-> query_id, urls |-> urls]
            ELSE ground_truth[i]]
    ELSE Append(ground_truth, [query_id |-> query_id, urls |-> urls])

RECURSIVE LoadRows(_)
\* "for row in reader": the dict after the rows, or None when a row made
\* json.loads raise
LoadRows(rows) ==
    IF rows = <<>> THEN Some(<<>>)
    ELSE LET before == LoadRows(SubSeq(rows, 1, Len(rows) - 1))
             row    == rows[Len(rows)]
         IN  IF before = None THEN None
             ELSE IF row.query = "" \/ row.urls = "" THEN before
             ELSE IF ParsedUrls(row.urls) = None THEN None
             ELSE Some(SetItem(before[1], row.query, ParsedUrls(row.urls)[1]))

\* load_training_data(filepath) for a .csv file with the given rows: any
\* exception is logged and {} returned
load_training_data(rows) ==
    IF LoadRows(rows) = None THEN <<>> ELSE LoadRows(rows)[1]

TrainingRows == [query : QueryCells, urls : UrlCells]

LoadCalls ==
    [op : {"load_training_data"},
     rows : SeqsUpTo(TrainingRows, MaxCsvRows)]

\* no catalog file, no vector database directory, no retriever, nothing
\* called yet
InitRetr ==
    /\ catalog = NoCatalogFile
    /\ dist = Distances
    /\ ties \in TieOrders
    /\ db = [path_exists |-> FALSE, collection |-> NoCollection]
    /\ retriever = NoRetriever
    /\ recommender = NoRecommender
    /\ chat = {}
    /\ call = Idle
    /\ kept = None
    /\ test_loop = LoopStart
    /\ build_pc = BuildIdle

\* the retrieval side at rest, for the specification of the evaluator
RetrAtRest ==
    /\ catalog = NoCatalogFile
    /\ dist = [v \in VecIds |-> [r \in Records |-> 40]]
    /\ ties = "oldest_first"
    /\ db = [path_exists |-> FALSE, collection |-> NoCollection]
    /\ retriever = NoRetriever
    /\ recommender = NoRecommender
    /\ chat = {}
    /\ call = Idle
    /\ kept = None
    /\ test_loop = LoopStart
    /\ build_pc = BuildIdle

\* an evaluator constructed and one of its methods about to be called
EvalStart ==
    /\ evalReturn = Pending
    /\ \/ /\ K_values = DefaultKValues
          /\ evalCall \in RecallCalls
       \/ /\ K_values \in KValueChoices
          /\ evalCall \in EvaluateCalls
       \/ /\ K_values = DefaultKValues
          /\ evalCall \in CsvCalls
       \/ /\ K_values = DefaultKValues
          /\ evalCall \in LoadCalls

\* the evaluator at rest, for the specification of the retrieval side
EvalAtRest ==
    /\ K_values = DefaultKValues
    /\ evalCall = Idle
    /\ evalReturn = Pending

InitEval == EvalStart /\ RetrAtRest

Init == EvalAtRest /\ InitRetr

\* ---------------------------------------------------------------------
\* Evaluator actions
\* ---------------------------------------------------------------------

\* MeanRecallAtKEvaluator.calculate_recall_at_k(predicted, ground_truth, k)
CalculateRecallAtK ==
    /\ evalReturn = Pending
    /\ evalCall.op = "calculate_recall_at_k"
    /\ evalReturn' = calculate_recall_at_k(evalCall.predicted,
                                           evalCall.ground_truth, evalCall.k)
    /\ UNCHANGED <<K_values, evalCall>>
    /\ UNCHANGED retrVars

\* MeanRecallAtKEvaluator.evaluate_system(query_predictions, ground_truth)
EvaluateSystem ==
    /\ evalReturn = Pending
    /\ evalCall.op = "evaluate_system"
    /\ evalReturn' = evaluate_system(evalCall.query_predictions,
                                     evalCall.ground_truth, K_values)
    /\ UNCHANGED <<K_values, evalCall>>
    /\ UNCHANGED retrVars

\* MeanRecallAtKEvaluator.generate_predictions_csv(output_file, predictions,
\* query_mapping)
GeneratePredictionsCsv ==
    /\ evalReturn = Pending
    /\ evalCall.op = "generate_predictions_csv"
    /\ evalReturn' = generate_predictions_csv(evalCall.output_file, evalCall.predictions,
                                              evalCall.query_mapping)
    /\ UNCHANGED <<K_values, evalCall>>
    /\ UNCHANGED retrVars

\* MeanRecallAtKEvaluator.load_training_data(filepath)
LoadTrainingData ==
    /\ evalReturn = Pending
    /\ evalCall.op = "load_training_data"
    /\ evalReturn' = [ret |-> load_training_data(evalCall.rows)]
    /\ UNCHANGED <<K_values, evalCall>>
    /\ UNCHANGED retrVars

\* ---------------------------------------------------------------------
\* Vector database actions
\* ---------------------------------------------------------------------

\* VectorDBBuilder.__init__: creates the database directory
NewBuilder ==
    /\ ~db.path_exists
    /\ db' = [db EXCEPT !.path_exists = TRUE]
    /\ call' = Idle
    /\ UNCHANGED <<catalog, dist, ties, chat, retriever, recommender, kept, test_loop,
                   build_pc>>
    /\ UNCHANGED evalVars

\* AssessmentParser.save_processed_data(df), for the frame parse_all made
\* of n parsed rows: the catalog file is written anew
SaveProcessedData ==
    /\ \E n \in 0..NumRecords : catalog' = to_csv(parse_all(n))
    /\ call' = Idle
    /\ UNCHANGED <<dist, ties, chat, db, retriever, recommender, kept, test_loop, build_pc>>
    /\ UNCHANGED evalVars

\* AssessmentParser.run(), the raw data file holding a list of n records:
\* load_raw_data, parse_all, save_processed_data
Run ==
    /\ \E raw_data \in 0..NumRecords :
         LET df == parse_all(raw_data)
         IN  catalog' = to_csv(df)
    /\ call' = Idle
    /\ UNCHANGED <<dist, ties, chat, db, retriever, recommender, kept, test_loop, build_pc>>
    /\ UNCHANGED evalVars

\* save_data(df) of convert_dataset, for the frame
\* convert_to_processed_format made of a dataset of n rows; main calls it
\* for a frame that is not empty
SaveData ==
    /\ \E n \in 1..MaxConverted : catalog' = to_csv(convert_to_processed_format(n))
    /\ call' = Idle
    /\ UNCHANGED <<dist, ties, chat, db, retriever, recommender, kept, test_loop, build_pc>>
    /\ UNCHANGED evalVars

\* self.client.delete_collection(self.collection_name): raises when no
\* collection has the name and when the store refuses the delete (fails),
\* and then leaves the store as it is
delete_collection(coll, fails) ==
    IF ~coll.exists \/ fails
    THEN [outcome |-> "error", collection |-> coll]
    ELSE [outcome |-> "ok", collection |-> NoCollection]

\* self.client.get_or_create_collection(name=self.collection_name, ...)
get_or_create_collection(coll) ==
    IF coll.exists THEN coll ELSE EmptyCollection

\* a retriever object after a delete_collection call of the builder: when
\* the collection it was connected to has been deleted, its self.collection
\* is the handle of a collection that is gone
AfterDelete(r, deleted) ==
    IF r.ready /\ deleted.outcome = "ok" THEN [r EXCEPT !.stale = TRUE] ELSE r

AddedEntriesUnderRowIds(coll, df) ==
    [i \in 1..df.rows |-> [id |-> i, rec |-> RecordsOf(df)[i]]]

\* the entries collection.add appends for the rows of the frame; the ids
\* are uuid4 values, which no entry has yet
AddedEntries(coll, df) ==
    coll.entries \o [i \in 1..df.rows |->
                       [id |-> Len(coll.entries) + i, rec |-> RecordsOf(df)[i]]]

\* a builder method has returned or raised
BuilderReturned(op, reset, df, outcome) ==
    [op |-> op, reset |-> reset, df |-> df, outcome |-> outcome]

\* VectorDBBuilder.build_database(reset) is called: load_processed_data
\* raises FileNotFoundError when the catalog file is missing and read_csv
\* raises EmptyDataError for a file without columns, else the rows are
\* read and create_collection(reset) is entered
CallBuildDatabase ==
    /\ build_pc.at = "idle"
    /\ db.path_exists
    /\ \E reset \in BOOLEAN :
         IF ~catalog.exists
         THEN /\ call' = BuilderReturned("build_database", reset, NoFrame,
                                         "FileNotFoundError")
              /\ UNCHANGED build_pc
         ELSE IF catalog.columns = "none"
         THEN /\ call' = BuilderReturned("build_database", reset, NoFrame,
                                         "EmptyDataError")
              /\ UNCHANGED build_pc
         ELSE /\ (IF reset THEN 0 ELSE Len(db.collection.entries)) + catalog.rows
                    <= MaxEntries
              /\ build_pc' = [at |-> "create", op |-> "build_database", reset |-> reset,
                              df |-> read_csv(catalog)]
              /\ call' = Idle
    /\ UNCHANGED <<catalog, dist, ties, chat, db, retriever, recommender, kept, test_loop>>
    /\ UNCHANGED evalVars

\* VectorDBBuilder.create_collection(reset) is called on its own
CallCreateCollection ==
    /\ build_pc.at = "idle"
    /\ db.path_exists
    /\ \E reset \in BOOLEAN :
         build_pc' = [at |-> "create", op |-> "create_collection", reset |-> reset,
                      df |-> NoFrame]
    /\ call' = Idle
    /\ UNCHANGED <<catalog, dist, ties, chat, db, retriever, recommender, kept, test_loop>>
    /\ UNCHANGED evalVars

\* create_collection, "if reset: try: delete_collection ... except
\* Exception": whatever the delete raises is logged and ignored; the
\* retrievers connected to a collection that is deleted lose it.  (A delete
\* that the store refuses leaves the entries in place, to which the build
\* then adds: the collection is not grown past MaxEntries.)
DeleteCollection ==
    /\ build_pc.at = "create"
    /\ build_pc.reset
    /\ \E fails \in BOOLEAN :
         LET deleted == delete_collection(db.collection, fails)
         IN  /\ Len(deleted.collection.entries) + build_pc.df.rows <= MaxEntries
             /\ db' = [db EXCEPT !.collection = deleted.collection]
             /\ retriever' = AfterDelete(retriever, deleted)
             /\ recommender' = [recommender EXCEPT
                                  !.retriever = AfterDelete(recommender.retriever, deleted)]
    /\ build_pc' = [build_pc EXCEPT !.at = "deleted"]
    /\ call' = Idle
    /\ UNCHANGED <<catalog, dist, ties, chat, kept, test_loop>>
    /\ UNCHANGED evalVars

\* create_collection, get_or_create_collection: after it create_collection
\* returns, to its caller or into build_database
GetOrCreateCollection ==
    /\ \/ build_pc.at = "create" /\ ~build_pc.reset
       \/ build_pc.at = "deleted"
    /\ db' = [db EXCEPT !.collection = get_or_create_collection(db.collection)]
    /\ IF build_pc.op = "create_collection"
       THEN /\ build_pc' = BuildIdle
            /\ call' = BuilderReturned("create_collection", build_pc.reset, NoFrame, "ok")
       ELSE /\ build_pc' = [build_pc EXCEPT !.at = "created"]
            /\ call' = Idle
    /\ UNCHANGED <<catalog, dist, ties, chat, retriever, recommender, kept, test_loop>>
    /\ UNCHANGED evalVars

\* the rest of build_database: the embeddings of the rows read at the start
\* are generated, collection.add stores one entry per row in one call, and
\* build_database returns
BuildAdd ==
    /\ build_pc.at = "created"
    /\ db' = [db EXCEPT !.collection =
                [exists  |-> TRUE,
                 entries |-> AddedEntries(db.collection, build_pc.df)]]
    /\ build_pc' = BuildIdle
    /\ call' = BuilderReturned("build_database", build_pc.reset, build_pc.df, "ok")
    /\ UNCHANGED <<catalog, dist, ties, chat, retriever, recommender, kept, test_loop>>
    /\ UNCHANGED evalVars

retriever_init_without_checks(database) == "ok"

\* AssessmentRetriever.__init__: what the constructor raises, "ok" when it
\* connects to the collection
retriever_init(database) ==
    IF ~database.path_exists THEN "FileNotFoundError"
    ELSE IF ~database.collection.exists THEN "RuntimeError"
    ELSE "ok"

\* retriever = AssessmentRetriever()
NewRetriever ==
    /\ call' = [op |-> "AssessmentRetriever", outcome |-> retriever_init(db)]
    /\ IF retriever_init(db) = "ok"
       THEN retriever' = ConnectedRetriever
       ELSE UNCHANGED retriever
    /\ UNCHANGED <<catalog, dist, ties, chat, db, recommender, kept, test_loop, build_pc>>
    /\ UNCHANGED evalVars

\* recommender = AssessmentRecommender(): the constructor builds its own
\* retriever, then the generation client when an API key is configured
NewRecommender ==
    /\ call' = [op |-> "AssessmentRecommender", outcome |-> retriever_init(db)]
    /\ IF retriever_init(db) = "ok"
       THEN \E client \in BOOLEAN :
               recommender' = [built |-> TRUE, client |-> client,
                               retriever |-> ConnectedRetriever]
       ELSE UNCHANGED recommender
    /\ UNCHANGED <<catalog, dist, ties, chat, db, retriever, kept, test_loop, build_pc>>
    /\ UNCHANGED evalVars

\* ---------------------------------------------------------------------
\* Retrieval and recommendation
\* ---------------------------------------------------------------------

\* top_k arguments of a call: None or a number, negative numbers and 0
\* included
TopKArgs == {None} \cup {Some(k) : k \in -1..MaxTopK}

\* what a request made through the handle of a deleted collection can meet:
\* the library either rejects the handle or looks the collection up by its
\* name again (by_name)
HandleLookups(self) == IF self.stale THEN BOOLEAN ELSE {FALSE}

\* self.collection.query(query_embeddings=[query_embedding], n_results=k):
\* raises for n_results below 1, for a collection that does not exist and,
\* unless the library looks the name up again, for a collection deleted
\* since the retriever connected
QueryIndex(self, query_text, k, by_name) ==
    IF (self.stale /\ ~by_name) \/ ~db.collection.exists \/ k <= 0
    THEN [outcome |-> "error", neighbors |-> <<>>]
    ELSE [outcome |-> "ok",
          neighbors |-> CollectionQuery(db.collection, dist[encode_query(query_text)],
                                        ties, k)]

\* AssessmentRetriever.retrieve
retrieve(self, job_title, skills, experience_level, additional_context, top_k, by_name) ==
    LET query_text == build_query_text(job_title, skills, experience_level,
                                       additional_context)
        k          == RequestedK(top_k, self.top_k)
        results    == QueryIndex(self, query_text, k, by_name)
    IN  [outcome    |-> results.outcome,
         query_text |-> query_text,
         k          |-> k,
         neighbors  |-> results.neighbors,
         ret        |-> FormatRetrieve(results.neighbors)]

\* AssessmentRetriever.retrieve_by_query
retrieve_by_query(self, query, top_k, by_name) ==
    LET k       == RequestedK(top_k, self.top_k)
        results == QueryIndex(self, query, k, by_name)
    IN  [outcome    |-> results.outcome,
         query_text |-> query,
         k          |-> k,
         neighbors  |-> results.neighbors,
         ret        |-> FormatRetrieveByQuery(results.neighbors)]

\* AssessmentRetriever.search
search(self, query, top_k, by_name) ==
    LET results == retrieve_by_query(self, query, top_k, by_name)
    IN  [results EXCEPT !.ret = AddScore(results.ret)]

\* the generation step shared by recommend and recommend_simple, for a
\* recommender with or without a client: llm_response is None unless the
\* call is made and succeeds
GenerationStep(retrieved_assessments, use_llm, client, llm_ok) ==
    LET attempted == use_llm /\ client
    IN  [llm_called   |-> attempted,
         grounding    |-> IF attempted THEN AssessmentsContext(retrieved_assessments)
                          ELSE <<>>,
         llm_response |-> IF attempted /\ llm_ok THEN Some("generated explanation")
                          ELSE None]

recommend_after_without_handler(retrieval, job_title, skills, experience_level, additional_context, use_llm, client, llm_ok) ==
    LET retrieved_assessments == retrieval.ret
        gen == GenerationStep(retrieved_assessments, use_llm, client, llm_ok)
    IN  IF retrieval.outcome = "error" \/ (gen.llm_called /\ ~llm_ok)
        THEN [outcome |-> "error", retrieval |-> retrieval, llm_called |-> gen.llm_called,
              grounding |-> <<>>, ret |-> EmptyDict]
        ELSE IF retrieved_assessments = <<>>
        THEN [outcome |-> "ok", retrieval |-> retrieval, llm_called |-> FALSE,
              grounding |-> <<>>,
              ret |-> [job_title             |-> job_title,
                       skills                |-> skills,
                       experience_level      |-> experience_level,
                       retrieved_assessments |-> <<>>,
                       recommendations       |-> <<>>,
                       explanation           |->
                          "No suitable assessments found for the given criteria.",
                       retrieval_count       |-> 0,
                       llm_recommendations   |-> None]]
        ELSE [outcome |-> "ok", retrieval |-> retrieval, llm_called |-> gen.llm_called,
              grounding |-> gen.grounding,
              ret |-> [job_title             |-> job_title,
                       skills                |-> skills,
                       experience_level      |-> experience_level,
                       additional_context    |-> additional_context,
                       retrieved_assessments |-> retrieved_assessments,
                       llm_recommendations   |-> gen.llm_response,
                       retrieval_count       |-> Len(retrieved_assessments),
                       timestamp             |-> "now"]]

\* AssessmentRecommender.recommend from the return of its retrieve call
\* on: client is whether the recommender has a generation client, llm_ok
\* whether the chat-service request, if made, succeeds
recommend_after(retrieval, job_title, skills, experience_level, additional_context, use_llm, client, llm_ok) ==
    LET retrieved_assessments == retrieval.ret
        gen == GenerationStep(retrieved_assessments, use_llm, client, llm_ok)
    IN  IF retrieval.outcome = "error"
        THEN [outcome |-> "error", retrieval |-> retrieval, llm_called |-> FALSE,
              grounding |-> <<>>, ret |-> EmptyDict]
        ELSE IF retrieved_assessments = <<>>
        THEN [outcome |-> "ok", retrieval |-> retrieval, llm_called |-> FALSE,
              grounding |-> <<>>,
              ret |-> [job_title             |-> job_title,
                       skills                |-> skills,
                       experience_level      |-> experience_level,
                       retrieved_assessments |-> <<>>,
                       recommendations       |-> <<>>,
                       explanation           |->
                          "No suitable assessments found for the given criteria.",
                       retrieval_count       |-> 0,
                       llm_recommendations   |-> None]]
        ELSE [outcome |-> "ok", retrieval |-> retrieval, llm_called |-> gen.llm_called,
              grounding |-> gen.grounding,
              ret |-> [job_title             |-> job_title,
                       skills                |-> skills,
                       experience_level      |-> experience_level,
                       additional_context    |-> additional_context,
                       retrieved_assessments |-> retrieved_assessments,
                       llm_recommendations   |-> gen.llm_response,
                       retrieval_count       |-> Len(retrieved_assessments),
                       timestamp             |-> "now"]]

\* AssessmentRecommender.recommend_simple from the return of its
\* retrieve_by_query call on
recommend_simple_after(retrieval, query, use_llm, client, llm_ok) ==
    LET retrieved_assessments == retrieval.ret
        gen == GenerationStep(retrieved_assessments, use_llm, client, llm_ok)
    IN  IF retrieval.outcome = "error"
        THEN [outcome |-> "error", retrieval |-> retrieval, llm_called |-> FALSE,
              grounding |-> <<>>, ret |-> EmptyDict]
        ELSE IF retrieved_assessments = <<>>
        THEN [outcome |-> "ok", retrieval |-> retrieval, llm_called |-> FALSE,
              grounding |-> <<>>,
              ret |-> [query           |-> query,
                       recommendations |-> <<>>,
                       explanation     |-> "No suitable assessments found.",
                       retrieval_count |-> 0]]
        ELSE [outcome |-> "ok", retrieval |-> retrieval, llm_called |-> gen.llm_called,
              grounding |-> gen.grounding,
              ret |-> [query                 |-> query,
                       retrieved_assessments |-> retrieved_assessments,
                       llm_recommendations   |-> gen.llm_response,
                       retrieval_count       |-> Len(retrieved_assessments)]]

\* "if use_llm and self.client", reached with a non-empty list: the
\* chat-service request is made
RequestsChat(retrieval, use_llm) ==
    /\ retrieval.outcome = "ok"
    /\ retrieval.ret # <<>>
    /\ use_llm
    /\ recommender.client

\* ---------------------------------------------------------------------
\* EvaluationPipeline.run_full_evaluation
\* ---------------------------------------------------------------------

\* the parameters of AssessmentRecommender.recommend_simple
recommend_simple_params == {"query", "use_llm"}

\* the keyword arguments of "self.recommender.recommend_simple(query_id,
\* top_k=10)"
PredictionCallKeywords == {"top_k"}

\* the steps of run_full_evaluation without a test file, in order
FullEvaluationSteps ==
    <<"load_training_data", "recommend_simple", "evaluate_system",
      "generate_predictions_csv", "generate_evaluation_report">>

\* run_full_evaluation(training_data_file) for a .csv file with the given
\* rows: the ground truth is loaded; when it is empty {} is returned; else
\* the first prediction call is made.  A keyword that recommend_simple does
\* not take raises TypeError before its body runs; a call that did return
\* would hand back a dict, whose keys (strings) have no get()
run_full_evaluation(rows) ==
    LET ground_truth == load_training_data(rows)
    IN  IF ground_truth = <<>>
        THEN [outcome |-> "ok", steps |-> <<"load_training_data">>,
              ground_truth |-> ground_truth]
        ELSE IF ~(PredictionCallKeywords \subseteq recommend_simple_params)
        THEN [outcome |-> "TypeError", steps |-> <<"load_training_data">>,
              ground_truth |-> ground_truth]
        ELSE [outcome |-> "AttributeError",
              steps |-> <<"load_training_data", "recommend_simple">>,
              ground_truth |-> ground_truth]

\* the training files the pipeline is run on
TrainingFiles ==
    {<<[query |-> "q1", urls |-> ""]>>,
     <<[query |-> "q1", urls |-> "a"]>>,
     <<[query |-> "q1", urls |-> "a, b"], [query |-> "q2", urls |-> "b"]>>}

\* the arguments of a structured call
StructuredArgs(job_title, skills, experience_level, additional_context) ==
    [job_title          |-> job_title,
     skills             |-> skills,
     experience_level   |-> experience_level,
     additional_context |-> additional_context]

\* no structured arguments: the call takes a free-text query
NoArgs == StructuredArgs("", <<>>, "", None)

RetrieveStoringTopK ==
    /\ retriever.ready
    /\ \E job_title \in JobTitles, skills \in SkillLists, experience_level \in Levels,
          additional_context \in ContextValues, top_k \in TopKArgs,
          by_name \in HandleLookups(retriever) :
         /\ call' = [op |-> "retrieve", top_k |-> top_k,
                     args |-> StructuredArgs(job_title, skills, experience_level,
                                             additional_context),
                     r  |-> retrieve(retriever, job_title, skills, experience_level,
                                     additional_context, top_k, by_name)]
         /\ retriever' = [retriever EXCEPT !.top_k = RequestedK(top_k, retriever.top_k)]
    /\ UNCHANGED <<catalog, dist, ties, chat, db, recommender, kept, test_loop, build_pc>>
    /\ UNCHANGED evalVars

\* retriever.retrieve(job_title, skills, experience_level,
\* additional_context, top_k): the call reads the collection once, in
\* collection.query, and returns
Retrieve ==
    /\ retriever.ready
    /\ \E job_title \in JobTitles, skills \in SkillLists, experience_level \in Levels,
          additional_context \in ContextValues, top_k \in TopKArgs,
          by_name \in HandleLookups(retriever) :
         call' = [op |-> "retrieve", top_k |-> top_k,
                  args |-> StructuredArgs(job_title, skills, experience_level,
                                          additional_context),
                  r  |-> retrieve(retriever, job_title, skills, experience_level,
                                  additional_context, top_k, by_name)]
    /\ UNCHANGED <<catalog, dist, ties, chat, db, retriever, recommender, kept, test_loop,
                   build_pc>>
    /\ UNCHANGED evalVars

\* retriever.retrieve_by_query(query, top_k)
RetrieveByQuery ==
    /\ retriever.ready
    /\ \E query \in FreeQueries, top_k \in TopKArgs, by_name \in HandleLookups(retriever) :
         call' = [op |-> "retrieve_by_query", top_k |-> top_k,
                  r  |-> retrieve_by_query(retriever, query, top_k, by_name)]
    /\ UNCHANGED <<catalog, dist, ties, chat, db, retriever, recommender, kept, test_loop,
                   build_pc>>
    /\ UNCHANGED evalVars

SearchStoringTopK ==
    /\ retriever.ready
    /\ \E query \in FreeQueries, top_k \in TopKArgs, by_name \in HandleLookups(retriever) :
         /\ call' = [op |-> "search", top_k |-> top_k,
                     r |-> search(retriever, query, top_k, by_name)]
         /\ retriever' = [retriever EXCEPT !.top_k = RequestedK(top_k, retriever.top_k)]
    /\ UNCHANGED <<catalog, dist, ties, chat, db, recommender, kept, test_loop, build_pc>>
    /\ UNCHANGED evalVars

\* retriever.search(query, top_k)
Search ==
    /\ retriever.ready
    /\ \E query \in FreeQueries, top_k \in TopKArgs, by_name \in HandleLookups(retriever) :
         call' = [op |-> "search", top_k |-> top_k,
                  r |-> search(retriever, query, top_k, by_name)]
    /\ UNCHANGED <<catalog, dist, ties, chat, db, retriever, recommender, kept, test_loop,
                   build_pc>>
    /\ UNCHANGED evalVars

\* a recommendation waiting in its chat-service request, with the list it
\* has retrieved
ChatRequest(caller, args, query, retrieval) ==
    [caller |-> caller, args |-> args, query |-> query, retrieval |-> retrieval]

\* AssessmentRecommender.recommend up to its return or, when it asks for an
\* explanation, up to the chat-service request, in which it waits while
\* other requests and the builder go on
Recommend ==
    /\ recommender.built
    /\ \E job_title \in JobTitles, skills \in SkillLists, experience_level \in Levels,
          additional_context \in ContextValues, use_llm \in BOOLEAN,
          by_name \in HandleLookups(recommender.retriever) :
         LET args      == StructuredArgs(job_title, skills, experience_level,
                                         additional_context)
             retrieval == retrieve(recommender.retriever, job_title, skills,
                                   experience_level, additional_context, None, by_name)
         IN  IF RequestsChat(retrieval, use_llm)
             THEN /\ Cardinality(chat) < MaxWaiting
                  /\ chat' = chat \cup {ChatRequest("recommend", args, "", retrieval)}
                  /\ call' = Idle
             ELSE /\ call' = [op |-> "recommend", use_llm |-> use_llm,
                              client |-> recommender.client, llm_ok |-> FALSE,
                              args |-> args,
                              r  |-> recommend_after(retrieval, job_title, skills,
                                                     experience_level, additional_context,
                                                     use_llm, recommender.client, FALSE)]
                  /\ UNCHANGED chat
    /\ UNCHANGED <<catalog, dist, ties, db, retriever, recommender, kept, test_loop,
                   build_pc>>
    /\ UNCHANGED evalVars

\* AssessmentRecommender.recommend_simple up to its return or up to the
\* chat-service request
RecommendSimple ==
    /\ recommender.built
    /\ \E query \in FreeQueries, use_llm \in BOOLEAN,
          by_name \in HandleLookups(recommender.retriever) :
         LET retrieval == retrieve_by_query(recommender.retriever, query, None, by_name)
         IN  IF RequestsChat(retrieval, use_llm)
             THEN /\ Cardinality(chat) < MaxWaiting
                  /\ chat' = chat \cup {ChatRequest("recommend_simple", NoArgs, query,
                                                    retrieval)}
                  /\ call' = Idle
             ELSE /\ call' = [op |-> "recommend_simple", use_llm |-> use_llm,
                              client |-> recommender.client, llm_ok |-> FALSE,
                              args |-> NoArgs,
                              r  |-> recommend_simple_after(retrieval, query, use_llm,
                                                            recommender.client, FALSE)]
                  /\ UNCHANGED chat
    /\ UNCHANGED <<catalog, dist, ties, db, retriever, recommender, kept, test_loop,
                   build_pc>>
    /\ UNCHANGED evalVars

\* self.client.chat.completions.create(...) of a waiting recommendation
\* answers or raises, and recommend or recommend_simple returns with the
\* list it retrieved before the request
CreateChatCompletion ==
    /\ \E request \in chat, llm_ok \in BOOLEAN :
         /\ chat' = chat \ {request}
         /\ IF request.caller = "recommend"
            THEN call' = [op |-> "recommend", use_llm |-> TRUE, client |-> TRUE,
                          llm_ok |-> llm_ok, args |-> request.args,
                          r  |-> recommend_after(request.retrieval,
                                                 request.args.job_title,
                                                 request.args.skills,
                                                 request.args.experience_level,
                                                 request.args.additional_context,
                                                 TRUE, TRUE, llm_ok)]
            ELSE call' = [op |-> "recommend_simple", use_llm |-> TRUE, client |-> TRUE,
                          llm_ok |-> llm_ok, args |-> NoArgs,
                          r  |-> recommend_simple_after(request.retrieval, request.query,
                                                        TRUE, TRUE, llm_ok)]
    /\ UNCHANGED <<catalog, dist, ties, db, retriever, recommender, kept, test_loop,
                   build_pc>>
    /\ UNCHANGED evalVars

\* EvaluationPipeline(recommender).run_full_evaluation(training_data_file)
RunFullEvaluation ==
    /\ recommender.built
    /\ \E rows \in TrainingFiles :
         call' = [op |-> "run_full_evaluation", r |-> run_full_evaluation(rows)]
    /\ UNCHANGED <<catalog, dist, ties, chat, db, retriever, recommender, kept, test_loop,
                   build_pc>>
    /\ UNCHANGED evalVars

\* ---------------------------------------------------------------------
\* Callers of a process that serves from an index no build is touching
\* ---------------------------------------------------------------------

RECURSIVE BuildsUpTo(_)
\* the collections that at most n builds without reset leave behind, each
\* over one of the frames, on a collection created empty
BuildsUpTo(n) ==
    IF n = 0 THEN {EmptyCollection}
    ELSE BuildsUpTo(n - 1)
           \cup {[exists  |-> TRUE, entries |-> AddedEntries(coll, df)] :
                   <<coll, df>> \in {p \in BuildsUpTo(n - 1) \X Frames :
                                       Count(p[1]) + p[2].rows <= MaxEntries}}

\* the catalog file as a serving process finds it: never written (a
\* collection made by create_collection alone needs none), or as one of
\* the writers left it
CatalogFiles == {NoCatalogFile} \cup {to_csv(df) : df \in Frames \cup {NoFrame}}

\* a retriever and a recommender have been constructed on a collection that
\* exists; the catalog file is missing or whatever the writers have made
\* of it
InitBuilt ==
    /\ EvalAtRest
    /\ catalog \in CatalogFiles
    /\ dist = Distances
    /\ ties \in TieOrders
    /\ db \in {[path_exists |-> TRUE, collection |-> coll] :
                 coll \in BuildsUpTo(MaxEntries)}
    /\ retriever = ConnectedRetriever
    /\ \E client \in BOOLEAN :
          recommender = [built |-> TRUE, client |-> client,
                         retriever |-> ConnectedRetriever]
    /\ chat = {}
    /\ call = Idle
    /\ kept = None
    /\ test_loop = LoopStart
    /\ build_pc = BuildIdle

\* "test_cases" of test_different_queries
TestCases ==
    <<StructuredArgs("Software Engineer", <<"Python", "Problem Solving">>, "Entry", None),
      StructuredArgs("Sales Manager", <<"Communication", "Leadership">>, "Senior", None),
      StructuredArgs("Data Analyst", <<"Statistics", "SQL", "Analytics">>, "Mid", None),
      StructuredArgs("HR Manager", <<"People Management", "Recruitment">>, "Senior", None)>>

\* "current_results": the (name, similarity_score) pairs of assessments[:5]
CurrentResults(assessments) ==
    [i \in 1..Len(Slice(assessments, 5)) |->
       <<assessments[i].name, assessments[i].similarity_score>>]

\* "all_same" after "if previous_results: if current_results ==
\* previous_results": None and the empty list are not compared
AllSameAfter(all_same, current_results, previous_results) ==
    IF None = previous_results \/ previous_results[1] = <<>> THEN all_same
    ELSE current_results = previous_results[1]

\* one iteration of the loop of test_different_queries, on the next test
\* case: the recommender answers it without generation (an exception ends
\* the script), the list is compared with the one kept from the iteration
\* before and kept in its place
TestDifferentQueries ==
    /\ recommender.built
    /\ test_loop.idx < Len(TestCases)
    /\ \E by_name \in HandleLookups(recommender.retriever) :
         LET idx       == test_loop.idx + 1
             test_case == TestCases[idx]
             retrieval == retrieve(recommender.retriever, test_case.job_title,
                                   test_case.skills, test_case.experience_level, None,
                                   None, by_name)
             result    == recommend_after(retrieval, test_case.job_title, test_case.skills,
                                          test_case.experience_level, None, FALSE,
                                          recommender.client, FALSE)
         IN  IF result.outcome # "ok"
             THEN /\ call' = [op |-> "recommend", use_llm |-> FALSE,
                              client |-> recommender.client, llm_ok |-> FALSE,
                              args |-> test_case, r |-> result, idx |-> idx,
                              previous_results |-> test_loop.previous_results]
                  /\ test_loop' = [test_loop EXCEPT !.idx = Len(TestCases)]
             ELSE LET current_results == CurrentResults(result.ret.retrieved_assessments)
                  IN  /\ call' = [op |-> "recommend", use_llm |-> FALSE,
                                  client |-> recommender.client, llm_ok |-> FALSE,
                                  args |-> test_case, r |-> result, idx |-> idx,
                                  previous_results |-> test_loop.previous_results]
                      /\ test_loop' = [idx |-> idx,
                                       previous_results |-> Some(current_results),
                                       all_same |-> AllSameAfter(test_loop.all_same,
                                                                 current_results,
                                                                 test_loop.previous_results)]
    /\ UNCHANGED <<catalog, dist, ties, chat, db, retriever, recommender, kept, build_pc>>
    /\ UNCHANGED evalVars

\* the caller of retrieve keeps the list it has just been given, with the
\* call it belongs to, while other calls are served (as recommend keeps
\* retrieved_assessments)
KeepAnswer ==
    /\ call.op = "retrieve"
    /\ kept = None
    /\ kept' = Some([args |-> call.args, top_k |-> call.top_k, r |-> call.r])
    /\ call' = Idle
    /\ UNCHANGED <<catalog, dist, ties, chat, db, retriever, recommender, test_loop,
                   build_pc>>
    /\ UNCHANGED evalVars

\* ---------------------------------------------------------------------
\* build_query_text on its own
\* ---------------------------------------------------------------------
MaxSkills == 2       \* most skills in a structured query

QueryTextTitles   == {"Software Engineer", "Sales Manager", ""}
QueryTextSkills   == SeqsUpTo({"Python", "SQL"}, MaxSkills)
QueryTextLevels   == {"Entry", "Mid", "Senior"}
QueryTextContexts == {None, Some(""), Some("Remote team")}

BuildQueryTextCalls ==
    [op : {"build_query_text"},
     job_title : QueryTextTitles,
     skills : QueryTextSkills,
     experience_level : QueryTextLevels,
     additional_context : QueryTextContexts,
     done : {FALSE},
     r : {""}]

\* a retriever connected to a built, still empty collection, and one call
\* of build_query_text about to be made
InitQueryText ==
    /\ EvalAtRest
    /\ catalog = NoCatalogFile
    /\ dist = [v \in VecIds |-> [r \in Records |-> 40]]
    /\ ties = "oldest_first"
    /\ db = [path_exists |-> TRUE, collection |-> EmptyCollection]
    /\ retriever = [ready |-> TRUE, stale |-> FALSE, top_k |-> ConfigTopK]
    /\ recommender = NoRecommender
    /\ chat = {}
    /\ call \in BuildQueryTextCalls
    /\ kept = None
    /\ test_loop = LoopStart
    /\ build_pc = BuildIdle

\* AssessmentRetriever.build_query_text(job_title, skills, experience_level,
\* additional_context)
BuildQueryText ==
    /\ call.op = "build_query_text"
    /\ ~call.done
    /\ call' = [call EXCEPT !.done = TRUE,
                            !.r = build_query_text(call.job_title, call.skills,
                                                   call.experience_level,
                                                   call.additional_context)]
    /\ UNCHANGED <<catalog, dist, ties, chat, db, retriever, recommender, kept, test_loop,
                   build_pc>>
    /\ UNCHANGED evalVars

NextQueryText == BuildQueryText

SpecQueryText == InitQueryText /\ [][NextQueryText]_vars

\* a process that serves searches and free-text recommendations from a
\* collection no build is touching.  A retrieval step is a whole request,
\* which reads the collection in one statement; the requests of any number
\* of threads take their steps in any order, also while a recommendation
\* waits for the chat service
NextServe ==
    \/ Retrieve
    \/ RetrieveByQuery
    \/ Search
    \/ RecommendSimple
    \/ CreateChatCompletion

SpecServe == InitBuilt /\ [][NextServe]_vars

\* the queries of a retriever on a collection no build is touching, and a
\* caller that keeps an answer to compare a later one with
NextRepeat ==
    \/ Retrieve
    \/ RetrieveByQuery
    \/ Search
    \/ KeepAnswer

SpecRepeat == InitBuilt /\ [][NextRepeat]_vars

\* test_different_queries on a collection no build is touching
NextTestLoop == TestDifferentQueries

SpecTestLoop == InitBuilt /\ [][NextTestLoop]_vars

\* a process that serves recommendations from a built index (app,
\* evaluate), beside a builder that creates and resets the collection
NextRecommend ==
    \/ CallCreateCollection
    \/ DeleteCollection
    \/ GetOrCreateCollection
    \/ NewRecommender
    \/ Recommend
    \/ RecommendSimple
    \/ CreateChatCompletion
    \/ RunFullEvaluation

SpecRecommend == InitBuilt /\ [][NextRecommend]_vars

NextEval == CalculateRecallAtK \/ EvaluateSystem \/ GeneratePredictionsCsv \/ LoadTrainingData

\* the catalog writers and the build script, beside a process that serves
\* searches from a retriever (api_simple, api_endpoint), on one database
\* directory; nothing orders the steps of the writers, of the builder and
\* of the requests
Next ==
    \/ NewBuilder
    \/ SaveProcessedData
    \/ Run
    \/ SaveData
    \/ CallBuildDatabase
    \/ CallCreateCollection
    \/ DeleteCollection
    \/ GetOrCreateCollection
    \/ BuildAdd
    \/ NewRetriever
    \/ Retrieve
    \/ RetrieveByQuery
    \/ Search

\* a process that constructs a retriever and a recommender and serves from
\* both (api_server), beside a builder that creates and resets the
\* collection: the index before anything is added to it
NextUnbuilt ==
    \/ NewBuilder
    \/ CallCreateCollection
    \/ DeleteCollection
    \/ GetOrCreateCollection
    \/ NewRetriever
    \/ NewRecommender
    \/ Retrieve
    \/ RetrieveByQuery
    \/ Search
    \/ Recommend
    \/ RecommendSimple

SpecEval == InitEval /\ [][NextEval]_vars

Spec == Init /\ [][Next]_vars

SpecUnbuilt == Init /\ [][NextUnbuilt]_vars

RecallDone   == evalCall.op = "calculate_recall_at_k" /\ evalReturn # Pending
EvaluateDone == evalCall.op = "evaluate_system" /\ evalReturn # Pending

\* ---------------------------------------------------------------------
\* Properties of calculate_recall_at_k and evaluate_system  (SpecEval)
\* ---------------------------------------------------------------------

\* the set of the first k elements of a ranked list, k >= 0
FirstK(predicted, k) ==
    {predicted[i] : i \in 1..(IF k < Len(predicted) THEN k ELSE Len(predicted))}

\* the positions of the ground-truth items that have a prediction entry
EvaluatedItems(ec) ==
    {i \in 1..Len(ec.ground_truth) :
        ec.ground_truth[i].query_id \in DOMAIN ec.query_predictions}

\* the recalls the report holds for a query, none when it has no entry
RecallsRecorded(results, query_id) ==
    IF query_id \in DOMAIN results.per_query_recall
    THEN results.per_query_recall[query_id]
    ELSE EmptyDict

\* C1: calculate_recall_at_k returns exactly 1.0 whenever the ground-truth
\* list is empty, whatever the predicted list and k (also for the calls
\* evaluate_system makes for a query whose ground truth is empty).
C1_EmptyGroundTruthIsOne ==
    /\ (RecallDone /\ evalCall.ground_truth = <<>>) => evalReturn = One
    /\ EvaluateDone =>
         \A i \in EvaluatedItems(evalCall) :
            evalCall.ground_truth[i].urls = <<>> =>
               \A key \in DOMAIN RecallsRecorded(evalReturn, evalCall.ground_truth[i].query_id) :
                  RecallsRecorded(evalReturn, evalCall.ground_truth[i].query_id)[key] = One

C1_Witness ==
    /\ RecallDone
    /\ evalCall.ground_truth = <<>>
    /\ Len(evalCall.predicted) = 2
    /\ evalCall.k = 0
    /\ evalReturn = One

\* C2: for a non-empty ground truth the recall is |S \cap G| / |G| with S the
\* set of the first k predictions (all of them when k exceeds the length)
\* and G the ground truth as a set; (a,b,c | a,c,z | 2) gives 1/3 and
\* (a,b | a,b | 5) gives 1.0.
C2_RecallIsOverlapOverTruth ==
    RecallDone =>
      /\ evalCall.ground_truth # <<>> =>
           LET S == FirstK(evalCall.predicted, evalCall.k)
               G == Range(evalCall.ground_truth)
           IN  /\ evalReturn.num * Cardinality(G) = evalReturn.den * Cardinality(S \cap G)
               /\ evalReturn.den > 0
               /\ Gcd(evalReturn.num, evalReturn.den) = 1
      /\ (evalCall.predicted = <<"a", "b", "c">> /\ evalCall.ground_truth = <<"a", "c", "z">>
            /\ evalCall.k = 2) => evalReturn = [num |-> 1, den |-> 3]
      /\ (evalCall.predicted = <<"a", "b">> /\ evalCall.ground_truth = <<"a", "b">>
            /\ evalCall.k = 5) => evalReturn = One

C2_Witness ==
    /\ RecallDone
    /\ evalCall.predicted = <<"a", "b", "c">>
    /\ evalCall.ground_truth = <<"a", "c", "z">>
    /\ evalCall.k = 2
    /\ evalReturn = [num |-> 1, den |-> 3]

\* C3: a repeated identifier in the first k predictions counts once while
\* its repeats still use up prefix positions: (a,a,b | a,b | 2) gives 0.5,
\* and the number of matches never exceeds the number of distinct
\* identifiers in the first k positions.
C3_DuplicatesDoNotInflate ==
    RecallDone =>
      /\ evalCall.ground_truth # <<>> =>
           evalReturn.num * Cardinality(Range(evalCall.ground_truth))
             <= evalReturn.den * Cardinality(FirstK(evalCall.predicted, evalCall.k))
      /\ (evalCall.predicted = <<"a", "a", "b">> /\ evalCall.ground_truth = <<"a", "b">>
            /\ evalCall.k = 2) => evalReturn = [num |-> 1, den |-> 2]

C3_Witness ==
    /\ RecallDone
    /\ evalCall.predicted = <<"a", "a", "b">>
    /\ evalCall.ground_truth = <<"a", "b">>
    /\ evalCall.k = 2
    /\ evalReturn = [num |-> 1, den |-> 2]

InUnit(x) == x.den > 0 /\ 0 <= x.num /\ x.num <= x.den

\* C4: every recall value returned by calculate_recall_at_k, and every
\* per-query value and per-K mean, min and max of an evaluate_system
\* report, lies in [0, 1], duplicates in either list included.
C4_RecallWithinUnitInterval ==
    /\ RecallDone => InUnit(evalReturn)
    /\ EvaluateDone =>
         /\ \A q \in DOMAIN evalReturn.per_query_recall :
               \A key \in DOMAIN evalReturn.per_query_recall[q] :
                  InUnit(evalReturn.per_query_recall[q][key])
         /\ \A key \in DOMAIN evalReturn.summary :
               /\ evalReturn.summary[key].mean \in 0..10000
               /\ evalReturn.summary[key].min \in 0..10000
               /\ evalReturn.summary[key].max \in 0..10000

C4_Witness ==
    /\ EvaluateDone
    /\ evalReturn.queries_evaluated = 2
    /\ \E i \in 1..Len(evalCall.ground_truth) :
          /\ Len(evalCall.ground_truth[i].urls) = 2
          /\ Cardinality(Range(evalCall.ground_truth[i].urls)) = 1
          /\ evalCall.ground_truth[i].query_id \in DOMAIN evalCall.query_predictions
          /\ evalCall.ground_truth[i].urls[1]
                \in Range(evalCall.query_predictions[evalCall.ground_truth[i].query_id])
    /\ \E key \in DOMAIN evalReturn.summary :
          evalReturn.summary[key].max = 10000 /\ evalReturn.summary[key].min = 0

\* the recall@k values of the evaluated queries, in ground-truth order,
\* computed query by query
RECURSIVE RecallsOfEvaluated(_, _, _)
RecallsOfEvaluated(query_predictions, ground_truth, k) ==
    IF ground_truth = <<>> THEN <<>>
    ELSE LET item == Head(ground_truth)
             rest == RecallsOfEvaluated(query_predictions, Tail(ground_truth), k)
         IN  IF item.query_id \in DOMAIN query_predictions
             THEN <<calculate_recall_at_k(query_predictions[item.query_id], item.urls, k)>>
                    \o rest
             ELSE rest

\* the ground-truth queries that have a prediction entry
EvaluatedQueries ==
    {evalCall.ground_truth[i].query_id : i \in EvaluatedItems(evalCall)}

\* the skipped queries are not counted and contribute to no per-K list of
\* recalls: every list holds the values of the evaluated queries only
SkippedQueriesAreLeftOut ==
    /\ evalReturn.queries_evaluated = Cardinality(EvaluatedQueries)
    /\ \A i \in 1..Len(K_values) :
          EvaluatedQueries # {} =>
            /\ MetricKey(K_values[i]) \in DOMAIN evalReturn.mean_recall_at_k
            /\ evalReturn.mean_recall_at_k[MetricKey(K_values[i])]
                 = RecallsOfEvaluated(evalCall.query_predictions,
                                      evalCall.ground_truth, K_values[i])
    /\ (EvaluatedQueries = {} \/ K_values = <<>>) =>
          DOMAIN evalReturn.mean_recall_at_k = {}

\* C5: a ground-truth query without a prediction entry is skipped, not
\* fatal: queries_evaluated counts the ground-truth queries that have a
\* prediction entry, per_query_recall has exactly those queries as keys,
\* and the skipped queries contribute to no per-K aggregate.
\* (An evaluator made with an empty K list counts a query and gives it no
\* per_query_recall key.)
C5_KeysAreEvaluatedQueries ==
    EvaluateDone =>
      /\ SkippedQueriesAreLeftOut
      /\ DOMAIN evalReturn.per_query_recall = EvaluatedQueries

\* |10^4 * p / q - m| <= 1/2: m is p / q rounded to four decimals
IsRounded4(m, p, q) ==
    /\ 2 * (10000 * p - m * q) <= q
    /\ 2 * (m * q - 10000 * p) <= q

\* x * y as a number of any size
Product(x, y) == MulBits(BitsOf(x), BitsOf(y))

\* |10^4 * sqrt(p / q) - s| <= 1/2, i.e.
\* (2s - 1)^2 * q <= 4 * 10^8 * p <= (2s + 1)^2 * q
IsRoundedSqrt4(s, p, q) ==
    /\ s >= 0
    /\ s <= 10000
    /\ s = 0 \/ ~LessBits(Product(400000000, p), Product((2 * s - 1) * (2 * s - 1), q))
    /\ ~LessBits(Product((2 * s + 1) * (2 * s + 1), q), Product(400000000, p))

\* the statistics of the recall values xs, stated directly
IsSummaryOf(entry, xs) ==
    LET n == Len(xs)
        D == LcmDen(xs)
        a == [i \in 1..n |-> xs[i].num * (D \div xs[i].den)]
        S == SumOver(xs, D)
        V == SumSqDev(xs, D, n, S)
    IN  /\ IsRounded4(entry.mean, S, n * D)
        /\ IsRoundedSqrt4(entry.std, V, n * n * n * D * D)
        /\ \E i \in 1..n : entry.min = Round4(xs[i].num, xs[i].den)
        /\ \A i \in 1..n : entry.min <= Round4(xs[i].num, xs[i].den)
        /\ \E i \in 1..n : entry.max = Round4(xs[i].num, xs[i].den)
        /\ \A i \in 1..n : entry.max >= Round4(xs[i].num, xs[i].den)

\* C6: for each configured K the summary holds the mean, the population
\* standard deviation, the minimum and the maximum of the recall@K of
\* exactly the evaluated queries; min <= mean <= max, and std is 0 when
\* all evaluated queries have the same recall@K.
C6_SummaryStatistics ==
    EvaluateDone =>
      \A i \in 1..Len(K_values) :
         LET key == MetricKey(K_values[i])
             xs  == RecallsOfEvaluated(evalCall.query_predictions,
                                       evalCall.ground_truth, K_values[i])
         IN  xs # <<>> =>
               /\ key \in DOMAIN evalReturn.summary
               /\ IsSummaryOf(evalReturn.summary[key], xs)
               /\ evalReturn.summary[key].min <= evalReturn.summary[key].mean
               /\ evalReturn.summary[key].mean <= evalReturn.summary[key].max
               /\ (\A m, n \in 1..Len(xs) : xs[m] = xs[n]) => evalReturn.summary[key].std = 0

\* C7: the aggregate does not depend on the order in which the entries are
\* evaluated and combined: every reordering of the ground-truth entries
\* yields the same queries_evaluated, the same per-query recalls and the
\* same per-K mean, std, min and max.
C7_OrderIndependent ==
    EvaluateDone =>
      \A f \in Reorderings(Len(evalCall.ground_truth)) :
         LET reordered == [i \in 1..Len(evalCall.ground_truth) |-> evalCall.ground_truth[f[i]]]
         IN  \A other \in {evaluate_system(evalCall.query_predictions, reordered, K_values)} :
                /\ other.queries_evaluated = evalReturn.queries_evaluated
                /\ other.per_query_recall = evalReturn.per_query_recall
                /\ other.summary = evalReturn.summary

\* ---------------------------------------------------------------------
\* Properties of retrieval  (Spec; C9 under SpecServe)
\*
\* call is what the step just taken returned.  A step that serves a query
\* leaves db as it is, so where a property of a returned list reads db it
\* reads the collection the call was answered from; the properties that
\* relate a call to the state it was made in are stated of the step, call'
\* against the unprimed state.
\* ---------------------------------------------------------------------

\* a retrieval call that returned a result list
Returned(ops) == call.op \in ops /\ call.r.outcome = "ok"

\* the k a call asked for: its top_k argument, else the configured top_k
AskedK == IF call.top_k = None THEN retriever.top_k ELSE call.top_k[1]

\* this step is a retrieve or retrieve_by_query call made through a
\* retriever whose collection is there, as it was when it connected
RetrievalStep ==
    /\ call'.op \in {"retrieve", "retrieve_by_query"}
    /\ db.collection.exists
    /\ ~retriever.stale

\* the k the call of this step asked for
AskedKOfStep == IF call'.top_k = None THEN retriever.top_k ELSE call'.top_k[1]

\* the call of this step returns a list of at most k elements and at most
\* as many as the collection holds
ReturnsBoundedList ==
    /\ call'.r.outcome = "ok"
    /\ Len(call'.r.ret) <= AskedKOfStep
    /\ Len(call'.r.ret) <= Count(db.collection)

\* C8 as stated: for every query and every requested k, retrieve and
\* retrieve_by_query return a list of at most k elements and at most as
\* many elements as the collection has entries.
C8_EveryKReturnsBoundedList ==
    [][RetrievalStep => ReturnsBoundedList]_vars

\* C8 amended: for every query and every requested k >= 1, retrieve and
\* retrieve_by_query, made through a retriever whose collection is there
\* as it was when the retriever connected, return a list of at most k
\* elements and at most as many elements as the collection has entries;
\* for k <= 0 they raise and return no list.  No call, through whatever
\* retriever, returns a list longer than its k or than the collection.
C8_ResultLengthBounded ==
    /\ [][(RetrievalStep /\ AskedKOfStep >= 1) => ReturnsBoundedList]_vars
    /\ [][(RetrievalStep /\ AskedKOfStep <= 0) => call'.r.outcome = "error"]_vars
    /\ [](Returned({"retrieve", "retrieve_by_query"}) =>
            /\ Len(call.r.ret) <= AskedK
            /\ Len(call.r.ret) <= Count(db.collection))

C8_Witness ==
    /\ Returned({"retrieve_by_query"})
    /\ ~retriever.stale
    /\ call.top_k = Some(1)
    /\ Count(db.collection) >= 2
    /\ Len(call.r.ret) = 1

\* the result list a call handed back, for the calls that return a
\* dictionary the list under retrieved_assessments
ResultList ==
    IF call.op \in {"retrieve", "retrieve_by_query", "search"} THEN call.r.ret
    ELSE IF "retrieved_assessments" \in DOMAIN call.r.ret
         THEN call.r.ret.retrieved_assessments
         ELSE <<>>

\* C9: in every result list returned by retrieve, retrieve_by_query,
\* search and recommend_simple the similarity_score never increases with
\* the rank.
C9_ScoresNonIncreasing ==
    Returned({"retrieve", "retrieve_by_query", "search", "recommend_simple"}) =>
      \A i, j \in 1..Len(ResultList) :
         i < j => ResultList[i].similarity_score >= ResultList[j].similarity_score

C9_Witness ==
    /\ Returned({"recommend_simple"})
    /\ Len(ResultList) = 2
    /\ ResultList[1].similarity_score > ResultList[2].similarity_score

\* C10: every result's similarity_score is 1 minus the distance the index
\* reported for that neighbor, and the results carry the ranks 1, 2, ..., N
\* in exactly the order in which the index returned the neighbors.
C10_ScoreAndRankFollowIndex ==
    Returned({"retrieve", "retrieve_by_query"}) =>
      /\ Len(call.r.ret) = Len(call.r.neighbors)
      /\ \A i \in 1..Len(call.r.ret) :
            /\ call.r.ret[i].rank = i
            /\ call.r.ret[i].similarity_score = 100 - call.r.neighbors[i].distance
            /\ call.r.ret[i].name = call.r.neighbors[i].metadata.name

C10_Witness ==
    /\ Returned({"retrieve"})
    /\ Len(call.r.ret) = 2
    /\ call.r.ret[1].rank = 1 /\ call.r.ret[1].similarity_score = 60
    /\ call.r.ret[2].rank = 2 /\ call.r.ret[2].similarity_score = -30
    /\ call.r.ret[1].name # call.r.ret[2].name

\* the call of this step returned a list
ListReturned == call'.op \in {"retrieve", "retrieve_by_query"} /\ call'.r.outcome = "ok"

\* the smaller of the k of the call of this step and the number of entries
\* the collection holds when the call is made
NeighborsAvailable ==
    IF call'.r.k < Count(db.collection) THEN call'.r.k ELSE Count(db.collection)

\* C11: no similarity-threshold filtering.  The result of retrieve and of
\* retrieve_by_query has exactly one element per neighbor the index
\* returned, neighbor i at position i with its name and its score, however
\* low the score is (negative, or below similarity_threshold); the list is
\* as long as the smaller of k and the number of entries of the collection
\* the call was made on.
C11_NoThresholdFiltering ==
    /\ [](Returned({"retrieve", "retrieve_by_query"}) =>
            /\ Len(call.r.ret) = Len(call.r.neighbors)
            /\ \A i \in 1..Len(call.r.neighbors) :
                  /\ call.r.ret[i].name = call.r.neighbors[i].metadata.name
                  /\ call.r.ret[i].similarity_score = 100 - call.r.neighbors[i].distance)
    /\ [][ListReturned => Len(call'.r.ret) = NeighborsAvailable]_vars

C11_Witness ==
    /\ Returned({"retrieve"})
    /\ Len(call.r.ret) = 2
    /\ call.r.ret[1].similarity_score >= similarity_threshold
    /\ call.r.ret[2].similarity_score < 0

\* this step is a retrieve call on a collection that exists and holds zero
\* entries
RetrieveOnEmptyCatalog ==
    /\ call'.op = "retrieve"
    /\ db.collection.exists
    /\ Count(db.collection) = 0

\* the call of this step returns the empty list
ReturnsEmptyList == call'.r.outcome = "ok" /\ call'.r.ret = <<>>

\* C12: retrieve against an empty catalog (a collection holding zero
\* entries) returns the empty list and never raises, for every query and
\* every k, the configured top_k included.
C12_EmptyCatalogNeverRaises ==
    [][RetrieveOnEmptyCatalog => ReturnsEmptyList]_vars

\* the index has not been built: no database directory or no collection
Unbuilt == ~db.path_exists \/ ~db.collection.exists

QueryOps == {"retrieve", "retrieve_by_query", "search", "recommend", "recommend_simple"}

Constructors == {"AssessmentRetriever", "AssessmentRecommender"}

\* constructing a retriever (on its own or inside a recommender) on an
\* unbuilt index raises: FileNotFoundError without the directory,
\* RuntimeError without the collection; and no object is made
ConstructionFailsWhenUnbuilt ==
    (call'.op \in Constructors /\ Unbuilt) =>
        /\ call'.outcome = (IF ~db.path_exists THEN "FileNotFoundError"
                            ELSE "RuntimeError")
        /\ retriever' = retriever
        /\ recommender' = recommender

\* this step is a query call that returns without having waited in a
\* chat-service request
QueryReturnsAtOnce == call'.op \in QueryOps /\ chat' = chat

\* a query made while the index is unbuilt raises, whatever retriever it is
\* made through, and does not get as far as the chat service
NoQueryWhenUnbuilt ==
    /\ (Unbuilt /\ QueryReturnsAtOnce) => call'.r.outcome = "error"
    /\ Unbuilt => chat' \subseteq chat

\* a failed construction changes nothing: the files, the database, the
\* objects and the requests in flight are as they were before the call
FailureConfinedToCall ==
    (call'.op \in Constructors /\ call'.outcome # "ok") =>
        UNCHANGED <<catalog, dist, ties, db, retriever, recommender, chat, kept,
                    test_loop, build_pc>>

\* C13: before the index is built a retriever cannot be constructed (the
\* constructor raises a not-found error), so no query is served, and the
\* failure is confined to that call.
C13_UnbuiltIndexRaises ==
    /\ [][ConstructionFailsWhenUnbuilt]_vars
    /\ [][NoQueryWhenUnbuilt]_vars
    /\ [][FailureConfinedToCall]_vars
    /\ [](~db.path_exists => (~retriever.ready /\ ~recommender.built))

\* a retriever constructed between the delete and the re-creation of a
\* reset build, beside a recommender that has lost its collection
C13_Witness ==
    /\ call.op = "AssessmentRetriever"
    /\ call.outcome = "RuntimeError"
    /\ db.path_exists
    /\ ~db.collection.exists
    /\ ~retriever.ready
    /\ recommender.retriever.stale

\* a build_database(reset=True) call has completed
ResetBuildCompleted ==
    /\ call.op = "build_database"
    /\ call.reset
    /\ call.outcome = "ok"

\* C14: after build_database(reset=True) completes, the collection holds
\* exactly one entry per input record, whatever it held before and however
\* many builds ran before.
\* (The input records are the rows the build read from the catalog file;
\* the step that completes the build is the one that adds them, so db is
\* the collection the build leaves.)
C14_ResetBuildIsIdempotent ==
    ResetBuildCompleted =>
        /\ Count(db.collection) = call.df.rows
        /\ \A k \in 1..call.df.rows :
              Cardinality({i \in 1..Count(db.collection) :
                             db.collection.entries[i].rec = RecordsOf(call.df)[k]}) = 1

\* C15: the index returns neighbors by ascending distance, and neighbors at
\* the same distance appear in the order in which they were added at build
\* time (entry ids grow in ingestion order).
C15_TiesInIngestionOrder ==
    Returned({"retrieve", "retrieve_by_query"}) =>
        \A i, j \in 1..Len(call.r.neighbors) :
            i < j =>
              /\ call.r.neighbors[i].distance <= call.r.neighbors[j].distance
              /\ (call.r.neighbors[i].distance = call.r.neighbors[j].distance
                    => call.r.neighbors[i].id < call.r.neighbors[j].id)

\* ---------------------------------------------------------------------
\* Properties of build_query_text  (SpecQueryText)
\* ---------------------------------------------------------------------

BuildQueryTextDone == call.op = "build_query_text" /\ call.done

RECURSIVE CommaSeparated(_)
\* the items, each but the last followed by ", "
CommaSeparated(items) ==
    IF items = <<>> THEN ""
    ELSE IF Len(items) = 1 THEN items[1]
    ELSE CommaSeparated(SubSeq(items, 1, Len(items) - 1)) \o ", " \o items[Len(items)]

\* a non-empty additional context was given
HasContext(additional_context) ==
    additional_context # None /\ additional_context # Some("")

\* C16: build_query_text emits title, skills joined with ', ', experience
\* level and then the context, separated by ' | '; the context segment is
\* there exactly when a non-empty additional context is given.
C16_QueryTextFieldOrder ==
    BuildQueryTextDone =>
        call.r = "Job Title: " \o call.job_title
                 \o " | Required Skills: " \o CommaSeparated(call.skills)
                 \o " | Experience Level: " \o call.experience_level
                 \o (IF HasContext(call.additional_context)
                     THEN " | Context: " \o call.additional_context[1]
                     ELSE "")

C16_Witness ==
    /\ BuildQueryTextDone
    /\ call.additional_context = Some("")
    /\ Len(call.skills) = 2
    /\ call.r = "Job Title: Sales Manager | Required Skills: SQL, Python | Experience Level: Senior"

\* ---------------------------------------------------------------------
\* Properties of repeated queries  (SpecRepeat)
\* ---------------------------------------------------------------------

\* retrieve has just answered the query whose earlier answer the caller
\* has kept: same title, skills, level, context and top_k
SameQueryAnsweredAgain ==
    /\ call.op = "retrieve"
    /\ kept # None
    /\ call.args = kept[1].args
    /\ call.top_k = kept[1].top_k

\* C17: an identical structured query (same title, skills, level, context
\* and k) against the unchanged index returns the list it returned before:
\* same items, same order, same scores, whatever was queried in between.
\* (The answer compared with is one the caller kept from an earlier call,
\* after which any other queries were served.)
C17_RepeatedQueryIsIdentical ==
    SameQueryAnsweredAgain =>
        /\ call.r.outcome = kept[1].r.outcome
        /\ call.r.ret = kept[1].r.ret

\* a structured query answered with two assessments at equal scores, as
\* in the answer kept from an earlier call
C17_Witness ==
    /\ SameQueryAnsweredAgain
    /\ call.top_k = None
    /\ Len(call.r.ret) = 2
    /\ call.r.ret[1].similarity_score = call.r.ret[2].similarity_score
    /\ call.r.ret[1].name # call.r.ret[2].name

\* ---------------------------------------------------------------------
\* Properties of recommendation  (SpecRecommend)
\* ---------------------------------------------------------------------

\* a recommend or recommend_simple call whose retrieval step returned at
\* least one assessment
RecommendWithRetrieved ==
    /\ call.op \in {"recommend", "recommend_simple"}
    /\ call.r.retrieval.outcome = "ok"
    /\ call.r.retrieval.ret # <<>>

\* the generation call of this request was made and succeeded
GenerationSucceeded ==
    call.use_llm /\ call.client /\ call.llm_ok

\* C18: whenever retrieval returned at least one assessment, recommend and
\* recommend_simple return normally with those assessments unchanged and
\* retrieval_count equal to their number, whether generation succeeds,
\* fails, is disabled or has no client; unless generation succeeded,
\* llm_recommendations is None.
C18_GenerationNeverSuppressesRetrieval ==
    RecommendWithRetrieved =>
        /\ call.r.outcome = "ok"
        /\ call.r.ret.retrieved_assessments = call.r.retrieval.ret
        /\ call.r.ret.retrieval_count = Len(call.r.retrieval.ret)
        /\ (~GenerationSucceeded => call.r.ret.llm_recommendations = None)
        /\ (GenerationSucceeded => call.r.ret.llm_recommendations # None)

\* a structured recommendation whose generation call was made and failed,
\* returned after a reset build deleted the collection during the request
C18_Witness ==
    /\ RecommendWithRetrieved
    /\ call.op = "recommend"
    /\ recommender.retriever.stale
    /\ ~db.collection.exists
    /\ call.use_llm
    /\ call.client
    /\ ~call.llm_ok
    /\ call.r.llm_called
    /\ call.r.ret.retrieval_count = 2
    /\ call.r.ret.llm_recommendations = None

\* C19: every result of retrieve and of retrieve_by_query carries the URL
\* of its record, the identifier the evaluator and the prediction export
\* read from a prediction.
C19_ResultsCarryUrl ==
    Returned({"retrieve", "retrieve_by_query"}) =>
        \A i \in 1..Len(call.r.ret) : PredictionUrl(call.r.ret[i]) # ""

\* ---------------------------------------------------------------------
\* Properties of the prediction export  (SpecEval)
\* ---------------------------------------------------------------------

CsvDone == evalCall.op = "generate_predictions_csv" /\ evalReturn # Pending

\* the (query, recommended item) pairs of one entry of the input, in rank
\* order, as lines
PairLines(entry, query_mapping) ==
    [j \in 1..Len(entry.assessments) |->
       <<QueryDisplay(query_mapping, entry.query_id),
         PredictionUrl(entry.assessments[j])>>]

RECURSIVE AllPairLines(_, _)
\* the pairs of the whole input: one block per query, in input order
AllPairLines(predictions, query_mapping) ==
    IF predictions = <<>> THEN <<>>
    ELSE AllPairLines(SubSeq(predictions, 1, Len(predictions) - 1), query_mapping)
         \o PairLines(predictions[Len(predictions)], query_mapping)

\* C20: the file is the header Query,Assessment_URL followed by one line
\* per (query, recommended item) pair of the input, the lines of a query
\* contiguous and in rank order; no pair is dropped, duplicated or
\* reordered.
C20_OneLinePerPair ==
    CsvDone =>
        evalReturn.file = <<CsvHeader>>
                          \o AllPairLines(evalCall.predictions, evalCall.query_mapping)

\* ---------------------------------------------------------------------
\* Properties of building beside serving  (Spec)
\* ---------------------------------------------------------------------

\* this step serves a query
QueryServed == call'.op \in {"retrieve", "retrieve_by_query", "search"}

\* C21: build and query never overlap.  A query is served only while no
\* build is between its create_collection and its add, so it never sees a
\* collection that is deleted, emptied for a rebuild or not yet populated.
C21_NoQueryDuringBuild ==
    [][QueryServed => build_pc.at = "idle"]_vars

\* ---------------------------------------------------------------------
\* Properties of serving from a built index  (SpecServe)
\* ---------------------------------------------------------------------

\* C22: once built, the index is read-only while serving.  Whatever the
\* sequence of retrieve, retrieve_by_query and search calls, each of them
\* leaves the collection (entries, count, order) and the retriever's
\* configuration (top_k, connection) as they were.
C22_ServingIsReadOnly ==
    [][QueryServed => UNCHANGED <<db, retriever, recommender, dist, ties>>]_vars

\* a search with its own top_k answered from a populated index while a
\* recommendation waits for the chat service
C22_Witness ==
    /\ chat # {}
    /\ call.op = "search"
    /\ call.top_k = Some(1)
    /\ retriever.top_k = ConfigTopK
    /\ Len(call.r.ret) = 1
    /\ Count(db.collection) = 2

\* ---------------------------------------------------------------------
\* Properties of the test loop  (SpecTestLoop)
\* ---------------------------------------------------------------------

\* the names of the assessments in a list the test loop keeps
Names(results) == {results[i][1] : i \in 1..Len(results)}

\* two different test cases have been answered one after the other: the
\* list of the first was kept, the list of the second has just been
\* returned
TwoDisjointQueriesAnswered ==
    /\ call.op = "recommend"
    /\ call.r.outcome = "ok"
    /\ call.idx > 1
    /\ TestCases[call.idx - 1] # TestCases[call.idx]
    /\ call.previous_results # None

\* C23: two queries with disjoint vocabularies never produce identical
\* top-5 result sets against the same index: the set of assessments
\* returned for the second differs from the set returned for the first.
C23_DisjointQueriesDiffer ==
    TwoDisjointQueriesAnswered =>
        Names(CurrentResults(call.r.ret.retrieved_assessments))
          # Names(call.previous_results[1])

\* ---------------------------------------------------------------------
\* Properties of the generation step  (SpecRecommend)
\* ---------------------------------------------------------------------

\* the generation call of this recommend or recommend_simple was made
GenerationCalled ==
    /\ call.op \in {"recommend", "recommend_simple"}
    /\ call.r.llm_called

\* C24: the grounding context passed to generation is exactly the retrieved
\* assessments of that call: one formatted block per retrieved assessment,
\* in rank order, nothing else; and the generation call is made only after
\* retrieval returned a non-empty list.
C24_GroundingIsRetrievedSet ==
    GenerationCalled =>
        /\ call.r.retrieval.outcome = "ok"
        /\ call.r.retrieval.ret # <<>>
        /\ Len(call.r.grounding) = Len(call.r.retrieval.ret)
        /\ \A i \in 1..Len(call.r.grounding) :
              /\ call.r.retrieval.ret[i].rank = i
              /\ call.r.grounding[i] =
                    format_assessment_for_context(call.r.retrieval.ret[i])

\* a free-text recommendation grounded on two different retrieved
\* assessments
C24_Witness ==
    /\ GenerationCalled
    /\ call.op = "recommend_simple"
    /\ Len(call.r.grounding) = 2
    /\ call.r.grounding[1] # call.r.grounding[2]
    /\ call.r.ret.retrieval_count = 2

\* ---------------------------------------------------------------------
\* Properties of the training data loader  (SpecEval)
\* ---------------------------------------------------------------------

LoadDone == evalCall.op = "load_training_data" /\ evalReturn # Pending

\* the training file lists one relevant URL per row, each row with its
\* query
OneUrlPerRow ==
    \A i \in 1..Len(evalCall.rows) :
        evalCall.rows[i].query # "" /\ evalCall.rows[i].urls \in {"a", "b"}

\* the URLs the loaded ground truth holds for a query
LoadedUrls(ground_truth, query_id) ==
    UNION {Range(ground_truth[i].urls) :
             i \in {j \in DOMAIN ground_truth : ground_truth[j].query_id = query_id}}

\* C27: the loaded ground truth maps each query to all of its relevant
\* items: with several rows for the same query, one URL per row, the URL of
\* every row is among the URLs loaded for that query, not only the last.
C27_EveryRowIsLoaded ==
    (LoadDone /\ OneUrlPerRow) =>
        \A i \in 1..Len(evalCall.rows) :
            evalCall.rows[i].urls \in LoadedUrls(evalReturn.ret, evalCall.rows[i].query)

\* ---------------------------------------------------------------------
\* Properties of the evaluation pipeline  (SpecRecommend)
\* ---------------------------------------------------------------------

\* C25: when the loaded ground truth is non-empty, run_full_evaluation
\* completes its steps in order (load, predict, evaluate, export, report)
\* and returns without raising.
C25_FullEvaluationCompletes ==
    (call.op = "run_full_evaluation" /\ call.r.ground_truth # <<>>) =>
        /\ call.r.outcome = "ok"
        /\ call.r.steps = FullEvaluationSteps

\* ---------------------------------------------------------------------
\* Properties of evaluation without predictions  (SpecEval)
\* ---------------------------------------------------------------------

\* no query of the ground truth has an entry in the predictions
NoQueryPredicted ==
    \A i \in 1..Len(evalCall.ground_truth) :
        evalCall.ground_truth[i].query_id \notin DOMAIN evalCall.query_predictions

\* C26: when no ground-truth query has a prediction entry (empty ground
\* truth and empty predictions included), evaluate_system returns normally
\* with queries_evaluated = 0, an empty per-query breakdown, no recall
\* lists and an empty summary.
C26_NothingEvaluatedIsEmptyReport ==
    (EvaluateDone /\ NoQueryPredicted) =>
        /\ evalReturn.queries_evaluated = 0
        /\ DOMAIN evalReturn.per_query_recall = {}
        /\ DOMAIN evalReturn.mean_recall_at_k = {}
        /\ DOMAIN evalReturn.summary = {}

\* a ground truth for q1 evaluated against predictions for q2 only
C26_Witness ==
    /\ EvaluateDone
    /\ NoQueryPredicted
    /\ Len(evalCall.ground_truth) = 1
    /\ evalCall.ground_truth[1].urls # <<>>
    /\ DOMAIN evalCall.query_predictions = {"q2"}
    /\ evalReturn.queries_evaluated = 0

\* ---------------------------------------------------------------------
\* Properties of builds without reset  (Spec)
\* ---------------------------------------------------------------------

\* this step belongs to a build_database(reset=False)
StepWithoutReset ==
    /\ build_pc.op = "build_database"
    /\ ~build_pc.reset
    /\ build_pc.at \in {"create", "created"}
    /\ build_pc' # build_pc

\* this step is the one that completes a build_database(reset=False)
BuildWithoutReset ==
    /\ StepWithoutReset
    /\ call'.op = "build_database"
    /\ call'.outcome = "ok"

\* every entry the collection held is still there, where it was
KeepsEarlierEntries ==
    LET old == db.collection.entries
        new == db'.collection.entries
    IN  Len(new) >= Len(old) /\ SubSeq(new, 1, Len(old)) = old

\* how many entries of the collection hold record r
StoredTimes(coll, r) ==
    Cardinality({i \in 1..Count(coll) : coll.entries[i].rec = r})

\* the build keeps every earlier entry and adds one entry with a fresh id
\* for every record it read
AddsOneEntryPerRecord ==
    LET old == db.collection.entries
        new == db'.collection.entries
        df  == build_pc.df
    IN  /\ Len(new) = Len(old) + df.rows
        /\ SubSeq(new, 1, Len(old)) = old
        /\ \A i \in (Len(old) + 1)..Len(new) :
              \A j \in 1..Len(new) : j # i => new[j].id # new[i].id
        /\ \A k \in 1..df.rows :
              StoredTimes(db'.collection, RecordsOf(df)[k])
                = StoredTimes(db.collection, RecordsOf(df)[k]) + 1

\* the collection holds every record of the frame n times, n * m entries
\* in all
StoredInWholeBuilds(coll, df, n) ==
    /\ Count(coll) = n * df.rows
    /\ \A k \in 1..df.rows : StoredTimes(coll, RecordsOf(df)[k]) = n

\* a build over m records that finds them stored n times each and nothing
\* else leaves them stored n + 1 times each, (n + 1) * m entries in all
CountsWholeBuilds ==
    \A n \in 0..MaxEntries :
        StoredInWholeBuilds(db.collection, build_pc.df, n) =>
            StoredInWholeBuilds(db'.collection, build_pc.df, n + 1)

\* C28: build_database with reset=False on an existing collection adds a
\* new entry with a fresh id for every record and removes none, so after n
\* completed builds without reset over m records the count is n * m and
\* every record is stored n times.
C28_BuildsWithoutResetAccumulate ==
    /\ [][StepWithoutReset => KeepsEarlierEntries]_vars
    /\ [][BuildWithoutReset => (AddsOneEntryPerRecord /\ CountsWholeBuilds)]_vars

\* the third build without reset over a catalog of one record
C28_Witness ==
    /\ call.op = "build_database"
    /\ ~call.reset
    /\ call.outcome = "ok"
    /\ call.df.rows = 1
    /\ Count(db.collection) = 3
    /\ StoredTimes(db.collection, RecordsOf(call.df)[1]) = 3

\* ---------------------------------------------------------------------
\* Properties of recall as a function of k  (SpecEval)
\* ---------------------------------------------------------------------

\* C29: calculate_recall_at_k is monotonically non-decreasing in k over
\* k >= 0: for a non-empty ground truth the recall at k = 0 is 0, the
\* recall at any smaller k is at most the recall at k, and from
\* k = len(predicted) on the recall no longer changes.
C29_RecallMonotoneInK ==
    RecallDone =>
        /\ \A k1 \in 0..evalCall.k :
              FracLeq(calculate_recall_at_k(evalCall.predicted, evalCall.ground_truth, k1),
                      evalReturn)
        /\ (evalCall.k = 0 /\ evalCall.ground_truth # <<>>) => evalReturn.num = 0
        /\ evalCall.k >= Len(evalCall.predicted) =>
              evalReturn = calculate_recall_at_k(evalCall.predicted, evalCall.ground_truth,
                                                 Len(evalCall.predicted))

\* a recall that grows strictly from k = 1 to k = 2 and is complete at
\* k = len(predicted) = 3
C29_Witness ==
    /\ RecallDone
    /\ evalCall.k = 3
    /\ Len(evalCall.predicted) = 3
    /\ evalReturn = One
    /\ calculate_recall_at_k(evalCall.predicted, evalCall.ground_truth, 2) # One
    /\ calculate_recall_at_k(evalCall.predicted, evalCall.ground_truth, 1).num = 0

\* ---------------------------------------------------------------------
\* Properties of the recommendation dict  (SpecRecommend)
\* ---------------------------------------------------------------------

\* recommend or recommend_simple has returned a dict
RecommendReturned ==
    /\ call.op \in {"recommend", "recommend_simple"}
    /\ call.r.outcome = "ok"

\* C30: every dict returned by recommend and recommend_simple, the one
\* returned when retrieval finds nothing included, has the keys
\* retrieved_assessments, llm_recommendations and retrieval_count, with
\* retrieval_count = len(retrieved_assessments).
C30_ReturnedDictHasCommonKeys ==
    RecommendReturned =>
        /\ {"retrieved_assessments", "llm_recommendations", "retrieval_count"}
              \subseteq DOMAIN call.r.ret
        /\ call.r.ret.retrieval_count = Len(call.r.ret.retrieved_assessments)

====
